---------------------------- MODULE Spec2Model ----------------------------
(***************************************************************************)
(* Model of the Aadhaar analysis dashboard: the metric calculators of      *)
(* analysis.py and the rule-based InsightGenerator of insightGenerator.py. *)
(*                                                                         *)
(* Numbers that are floats in the program are exact rationals <<n, d>>     *)
(* here (d >= 0, lowest terms); d = 0 encodes the IEEE specials the code   *)
(* can produce: <<0,0>> is NaN, <<1,0>> is +inf, <<-1,0>> is -inf.         *)
(* A Python dict is a function whose DOMAIN is its key set; the empty dict *)
(* is the function with the empty domain.                                  *)
(***************************************************************************)
EXTENDS Integers, Sequences, FiniteSets, TLC

VARIABLES
    results,          \* InsightGenerator.results: the metric mapping
    insights,         \* InsightGenerator.insights
    recommendations,  \* InsightGenerator.recommendations
    ret,              \* value returned by the last public method call
    regens,           \* number of generate_all_insights calls after __init__
    df                \* the dataset handed to a metric calculator

vars == <<results, insights, recommendations, ret, regens, df>>

-----------------------------------------------------------------------------
(* Exact rational arithmetic standing for the program's float arithmetic.  *)

Abs(x) == IF x < 0 THEN -x ELSE x

RECURSIVE GCD(_, _)
GCD(a, b) == IF b = 0 THEN a ELSE GCD(b, a % b)

Sign(x) == IF x > 0 THEN 1 ELSE IF x < 0 THEN -1 ELSE 0

\* n/d in lowest terms; a zero denominator keeps only the sign (inf / NaN).
R(n, d) ==
    IF d = 0 THEN <<Sign(n), 0>>
    ELSE LET g == GCD(Abs(n), Abs(d))
             s == IF d < 0 THEN -1 ELSE 1
         IN  <<s * (n \div g), s * (d \div g)>>

I(n) == <<n, 1>>
NaN == <<0, 0>>
IsNaN(a) == a[1] = 0 /\ a[2] = 0
IsFinite(a) == a[2] # 0

\* IEEE comparisons: every comparison with NaN is false.
RLt(a, b) == ~IsNaN(a) /\ ~IsNaN(b) /\ a[1] * b[2] < b[1] * a[2]
RGt(a, b) == RLt(b, a)
RGe(a, b) == ~IsNaN(a) /\ ~IsNaN(b) /\ a[1] * b[2] >= b[1] * a[2]
REq(a, b) == ~IsNaN(a) /\ ~IsNaN(b) /\ a[1] * b[2] = b[1] * a[2]
    /\ (a[2] = 0) = (b[2] = 0)

RAdd(a, b) ==
    IF a[2] = 0 /\ b[2] = 0 THEN (IF a[1] = b[1] THEN a ELSE NaN)
    ELSE IF a[2] = 0 THEN a
    ELSE IF b[2] = 0 THEN b
    ELSE R(a[1] * b[2] + b[1] * a[2], a[2] * b[2])
RNeg(a) == <<-a[1], a[2]>>
RSub(a, b) == RAdd(a, RNeg(b))
RMul(a, b) == R(a[1] * b[1], a[2] * b[2])
\* float division as numpy/pandas do it: x/0 is inf or NaN, never an error
RDiv(a, b) == IF b[1] < 0 THEN R(-(a[1] * b[2]), -(a[2] * b[1]))
              ELSE R(a[1] * b[2], a[2] * b[1])

RECURSIVE RSum(_)
RSum(s) == IF s = <<>> THEN I(0) ELSE RAdd(Head(s), RSum(Tail(s)))

-----------------------------------------------------------------------------
(* Python string formatting of numbers.                                    *)

RECURSIVE Pow10(_)
Pow10(k) == IF k = 0 THEN 1 ELSE 10 * Pow10(k - 1)

RECURSIVE ZeroPad(_, _)
ZeroPad(str, width) ==
    IF Len(str) >= width THEN str ELSE ZeroPad("0" \o str, width)

\* format(x, '.<digits>f'): round half to even on the exact value.
FmtF(x, digits) ==
    IF IsNaN(x) THEN "nan"
    ELSE IF x[2] = 0 THEN (IF x[1] > 0 THEN "inf" ELSE "-inf")
    ELSE LET scale == Pow10(digits)
             num   == Abs(x[1]) * scale
             q     == num \div x[2]
             rem   == num % x[2]
             up    == 2 * rem > x[2] \/ (2 * rem = x[2] /\ q % 2 = 1)
             m     == IF up THEN q + 1 ELSE q
             body  == IF digits = 0 THEN ToString(m)
                      ELSE ToString(m \div scale) \o "." \o
                           ZeroPad(ToString(m % scale), digits)
         IN  IF x[1] < 0 THEN "-" \o body ELSE body

\* format(n, ','): thousands separators, for a non-negative integer.
RECURSIVE FmtComma(_)
FmtComma(n) ==
    IF n < 1000 THEN ToString(n)
    ELSE FmtComma(n \div 1000) \o "," \o ZeroPad(ToString(n % 1000), 3)

-----------------------------------------------------------------------------
(* Python dicts.                                                           *)

EmptyMap == [k \in {} |-> 0]

\* dict.get(key, default)
Get(m, k, default) == IF k \in DOMAIN m THEN m[k] ELSE default

\* truthiness of a dict: non-empty
Truthy(m) == DOMAIN m # {}

-----------------------------------------------------------------------------
(* InsightGenerator: the per-family insight generators.  Each takes the    *)
(* metric mapping (self.results) and returns one insight record, or the    *)
(* empty dict.                                                             *)

\* str.upper() on the trend labels calculate_growth_rate produces
Upper(s) ==
    CASE s = "upward" -> "UPWARD"
      [] s = "downward" -> "DOWNWARD"
      [] s = "stable" -> "STABLE"
      [] OTHER -> s

Insight(title, message, details, action, severity, type) ==
    [title |-> title, message |-> message, details |-> details,
     action |-> action, severity |-> severity, type |-> type]

generate_temporal_insight(res) ==
    LET temporal   == Get(res, "temporal_metrics", EmptyMap)
        growth     == Get(temporal, "avg_growth_rate", I(0))
        trend      == Get(temporal, "trend_direction", "stable")
        peak_count == Get(temporal, "peak_count", 0)
    IN  IF RGt(growth, I(20)) THEN
            Insight("EXCEPTIONAL GROWTH - Accelerating Fast",
                    "The enrollment is growing at " \o FmtF(growth, 1) \o
                    "% daily - this is outstanding! It is experiencing rapid expansion with peak day reaching "
                    \o FmtComma(peak_count) \o " enrollments. Trend: " \o Upper(trend),
                    "Growth above 20% daily indicates explosive expansion. This is exceptional and requires infrastructure scaling to handle the volume.",
                    "Scale infrastructure immediately to handle increased volume",
                    "positive", "temporal")
        ELSE IF RGt(growth, I(10)) THEN
            Insight("STRONG GROWTH - On Track",
                    "Daily growth rate is " \o FmtF(growth, 1) \o
                    "% - excellent performance! This system is expanding well with consistent positive momentum. Trend: "
                    \o Upper(trend),
                    "Growth between 10-20% is strong and sustainable. The enrollment system is performing well.",
                    "Maintain momentum and continue monitoring capacity",
                    "positive", "temporal")
        ELSE IF RGt(growth, I(5)) THEN
            Insight("STEADY GROWTH - Healthy Progress",
                    "Enrollment is growing steadily at " \o FmtF(growth, 1) \o
                    "% daily. This is on track with consistent, healthy expansion. Trend: "
                    \o Upper(trend),
                    "5-10% daily growth is healthy and sustainable long-term.",
                    "Continue current strategy while planning for scaling",
                    "info", "temporal")
        ELSE
            Insight("SLOW GROWTH - Needs Attention",
                    "Growth rate is " \o FmtF(growth, 1) \o "% daily - below target. Trend: "
                    \o Upper(trend) \o ". The enrollment needs a boost.",
                    "Below 5% daily growth suggests the need for campaign improvements.",
                    "Review marketing campaigns and identify growth barriers",
                    "warning", "temporal")

generate_peak_activity_insight(res) ==
    LET temporal   == Get(res, "temporal_metrics", EmptyMap)
        peak_count == Get(temporal, "peak_count", 0)
        peak_day   == Get(temporal, "peak_day", "N/A")
    IN  Insight("PEAK ACTIVITY - The Busiest Day",
                "The peak enrollment day recorded " \o FmtComma(peak_count) \o
                " registrations on " \o peak_day \o
                ". This shows the system's maximum capacity and user interest level.",
                "Understanding peak capacity helps with infrastructure planning and resource allocation.",
                "Use peak day data to plan infrastructure and staffing",
                "info", "temporal")

\* Python truthiness of a float: anything but zero (NaN is truthy)
NonZero(x) == ~(x[1] = 0 /\ x[2] # 0)

generate_weekly_consistency_insight(res) ==
    LET temporal     == Get(res, "temporal_metrics", EmptyMap)
        weekly_stats == Get(temporal, "weekly_stats", EmptyMap)
        avg_weekly   == Get(weekly_stats, "avg_weekly", 0)
        variance     == Get(weekly_stats, "weekly_variance", I(0))
        cv == IF NonZero(variance) /\ avg_weekly # 0
              THEN RMul(RDiv(variance, I(avg_weekly)), I(100))
              ELSE I(0)
        band == IF RLt(cv, I(15)) THEN
                    <<"Highly Consistent - Predictable patterns", "positive">>
                ELSE IF RLt(cv, I(30)) THEN
                    <<"Moderately Consistent - Some variation", "info">>
                ELSE <<"Highly Variable - Unpredictable patterns", "warning">>
    IN  Insight("WEEKLY PATTERNS - Predictability Check",
                "Average weekly enrollment: " \o FmtComma(avg_weekly) \o
                " registrations. Status: " \o band[1] \o
                ". This tells how predictable the enrollment patterns are.",
                "Low variation means you can forecast demand accurately. High variation requires flexible resources.",
                "Plan staffing and resources based on consistency level",
                band[2], "temporal")

generate_geographic_insight(res) ==
    LET geo           == Get(res, "geographic_metrics", EmptyMap)
        hhi           == Get(geo, "herfindahl_index", I(0))
        top_state_pct == Get(geo, "top_state_percentage", I(0))
        top_state     == Get(geo, "top_state", "N/A")
    IN  IF RGt(hhi, I(2500)) THEN
            Insight("HIGH CONCENTRATION - Unbalanced Distribution",
                    top_state \o " dominates with " \o FmtF(top_state_pct, 1) \o
                    "% of all enrollments. The enrollment is heavily concentrated in one region. This means most of the users are from a specific area.",
                    "High concentration (HHI > 2500) indicates unbalanced geographic distribution. This creates risk if that region experiences disruption.",
                    "Launch targeted campaigns in underserved regions",
                    "warning", "geographic")
        ELSE IF RGt(hhi, I(2000)) THEN
            Insight("MODERATE CONCENTRATION - Room for Growth",
                    top_state \o " leads with " \o FmtF(top_state_pct, 1) \o
                    "% of enrollments. The distribution is somewhat unbalanced but manageable. There's good opportunity for geographic expansion.",
                    "Moderate concentration suggests some regional imbalance but with diversification potential.",
                    "Focus on expanding in tier-2 and tier-3 cities",
                    "info", "geographic")
        ELSE
            Insight("BALANCED DISTRIBUTION - Well Spread",
                    "Enrollments are well-distributed across regions. Top state ("
                    \o top_state \o ") has only " \o FmtF(top_state_pct, 1) \o
                    "%. This excellent geographic diversity reduces regional risk.",
                    "Low concentration (HHI < 2000) indicates healthy geographic distribution.",
                    "Continue expanding in new regions",
                    "positive", "geographic")

generate_state_coverage_insight(res) ==
    LET geo          == Get(res, "geographic_metrics", EmptyMap)
        num_states   == Get(geo, "num_states", 0)
        coverage_pct == R(num_states * 100, 36)
        band == IF num_states >= 30 THEN
                    <<"Excellent - Nearly complete coverage", "positive">>
                ELSE IF num_states >= 20 THEN
                    <<"Good - Significant coverage", "info">>
                ELSE <<"Limited - Room for expansion", "warning">>
    IN  Insight("GEOGRAPHIC COVERAGE - State Distribution",
                "The service covers " \o ToString(num_states) \o " states/UTs (" \o
                FmtF(coverage_pct, 0) \o "% of India). Status: " \o band[1] \o
                ". This shows the national reach.",
                "Higher coverage means better national presence and reduced geographic risk.",
                IF num_states < 36
                THEN "Plan expansion to reach remaining " \o ToString(36 - num_states) \o " regions"
                ELSE "Maintain national coverage",
                band[2], "geographic")

generate_demographic_insight(res) ==
    LET demo         == Get(res, "demographic_metrics", EmptyMap)
        diversity    == Get(demo, "age_diversity_index", I(0))
        dominant_pct == Get(demo, "dominant_age_percentage", I(0))
        dominant_age == Get(demo, "dominant_age", "N/A")
    IN  IF RGt(diversity, R(8, 10)) THEN
            Insight("EXCELLENT DIVERSITY - All Groups Well Represented",
                    "The enrollment is highly diverse across all age groups. No single age group dominates (largest is "
                    \o FmtF(dominant_pct, 1) \o
                    "%). This indicates inclusive outreach and balanced participation.",
                    "High diversity (>0.8) means the service appeals to all demographics.",
                    "Maintain inclusive engagement strategies",
                    "positive", "demographic")
        ELSE IF RGt(diversity, R(6, 10)) THEN
            Insight("GOOD DIVERSITY - Balanced Participation",
                    "Most age groups are well-represented, though " \o dominant_age \o
                    " leads with " \o FmtF(dominant_pct, 1) \o
                    "%. The enrollment is reasonably balanced.",
                    "Moderate diversity (0.6-0.8) shows balanced but not perfect representation.",
                    "Monitor underrepresented groups for equity",
                    "info", "demographic")
        ELSE IF RGt(diversity, R(4, 10)) THEN
            Insight("MODERATE SKEW - Some Groups Underrepresented",
                    dominant_age \o " accounts for " \o FmtF(dominant_pct, 1) \o
                    "% of enrollments. Other age groups are underrepresented. This needs attention.",
                    "Lower diversity suggests some demographic groups are not being reached.",
                    "Launch targeted outreach for underrepresented age groups",
                    "warning", "demographic")
        ELSE
            Insight("CRITICAL SKEW - Severe Demographic Imbalance",
                    dominant_age \o " dominates with " \o FmtF(dominant_pct, 1) \o
                    "% of enrollments. Other demographic groups are significantly underrepresented. This is a critical gap that needs immediate action.",
                    "Very low diversity indicates major demographic gaps in the service.",
                    "Launch immediate diversity and inclusion campaigns",
                    "critical", "demographic")

\* sorted(items, key=count, reverse=True)[0]: the first item, in dict order,
\* among those with the largest count (Python's sort is stable).
MaxItem(items) ==
    LET best == CHOOSE i \in 1..Len(items) :
                    /\ \A j \in 1..Len(items) : items[j][2] <= items[i][2]
                    /\ \A j \in 1..(i - 1) : items[j][2] < items[i][2]
    IN  items[best]

\* sorted(items, key=count, reverse=True)[-1]: the last item, in dict order,
\* among those with the smallest count.
MinItem(items) ==
    LET worst == CHOOSE i \in 1..Len(items) :
                     /\ \A j \in 1..Len(items) : items[j][2] >= items[i][2]
                     /\ \A j \in (i + 1)..Len(items) : items[j][2] > items[i][2]
    IN  items[worst]

\* gender_distribution is an ordered dict, modelled as its item sequence
\* <<name, count>>; the empty dict is the empty sequence.
generate_gender_insight(res) ==
    LET demo        == Get(res, "demographic_metrics", EmptyMap)
        gender_dist == Get(demo, "gender_distribution", <<>>)
    IN  IF gender_dist = <<>> THEN EmptyMap
        ELSE
        LET max_gender == MaxItem(gender_dist)
            min_gender == MinItem(gender_dist)
            ratio == IF min_gender[2] > 0 THEN R(max_gender[2], min_gender[2])
                     ELSE I(0)
            band == IF RLt(ratio, R(12, 10)) THEN
                        <<"Excellent - Nearly equal participation", "positive">>
                    ELSE IF RLt(ratio, R(15, 10)) THEN
                        <<"Good - Fairly balanced", "info">>
                    ELSE <<"Imbalanced - One gender dominates", "warning">>
        IN  Insight("GENDER BALANCE - Equality Check",
                    "Gender distribution ratio is " \o FmtF(ratio, 2) \o ":1 (" \o
                    max_gender[1] \o " to " \o min_gender[1] \o "). Status: " \o
                    band[1] \o ". Aim for equal participation from all genders.",
                    "Balanced gender representation ensures inclusive service delivery.",
                    "If imbalanced, increase outreach to underrepresented gender",
                    band[2], "demographic")

generate_quality_insight(res) ==
    LET quality      == Get(res, "quality_metrics", EmptyMap)
        completeness == Get(quality, "overall_completeness", I(0))
        issues       == Get(quality, "issues", EmptyMap)
        total_issues == Get(issues, "total_issues", 0)
    IN  IF RGt(completeness, I(97)) THEN
            Insight("EXCELLENT DATA QUALITY - Premium Standard",
                    "Data completeness is " \o FmtF(completeness, 1) \o
                    "%. The data is pristine with minimal issues. This ensures reliable analysis and decision-making.",
                    "Excellent data quality (>97%) means high confidence in analytics.",
                    "Maintain current data collection standards",
                    "positive", "quality")
        ELSE IF RGt(completeness, I(93)) THEN
            Insight("GOOD DATA QUALITY - Reliable",
                    "Data completeness is " \o FmtF(completeness, 1) \o
                    "%. Quality is good with minimal issues. The data is reliable for analysis.",
                    "Good data quality (93-97%) is acceptable for most purposes.",
                    "Monitor and continue gradual improvements",
                    "info", "quality")
        ELSE IF RGt(completeness, I(85)) THEN
            Insight("MODERATE QUALITY - Needs Attention",
                    "Data completeness is " \o FmtF(completeness, 1) \o "% with " \o
                    FmtComma(total_issues) \o
                    " identified issues. Quality needs improvement for reliable analysis.",
                    "Below 93% completeness means important data gaps exist.",
                    "Identify and fix data collection gaps systematically",
                    "warning", "quality")
        ELSE
            Insight("POOR DATA QUALITY - Critical",
                    "Data completeness is only " \o FmtF(completeness, 1) \o "% with " \o
                    FmtComma(total_issues) \o
                    " critical issues. Data quality is severely compromised.",
                    "Below 85% completeness severely impacts reliability.",
                    "Urgently review and fix data collection procedures",
                    "critical", "quality")

generate_duplicates_insight(res) ==
    LET quality       == Get(res, "quality_metrics", EmptyMap)
        issues        == Get(quality, "issues", EmptyMap)
        duplicates    == Get(issues, "duplicate_records", 0)
        total_records == Get(quality, "total_records", 1)
        dup_pct == IF total_records > 0 THEN R(duplicates * 100, total_records)
                   ELSE I(0)
        band == IF duplicates = 0 THEN <<"Perfect - No duplicates", "positive">>
                ELSE IF RLt(dup_pct, R(5, 10)) THEN
                    <<"Acceptable - Minimal duplicates", "info">>
                ELSE <<"Concerning - Significant duplication", "warning">>
    IN  Insight("DUPLICATE RECORDS - Data Integrity Check",
                "Found " \o FmtComma(duplicates) \o " duplicate records (" \o
                FmtF(dup_pct, 2) \o "%). Status: " \o band[1] \o
                ". This affects data accuracy.",
                "Duplicates can skew analysis results and inflate enrollment numbers.",
                "Implement duplicate detection and removal procedures",
                band[2], "quality")

\* sum of f[k] over the keys k in S
RECURSIVE RSumOver(_, _)
RSumOver(f, S) ==
    IF S = {} THEN I(0)
    ELSE LET k == CHOOSE x \in S : TRUE
         IN  RAdd(f[k], RSumOver(f, S \ {k}))

\* every value of biometric_metrics is a dict {count, percentage}, as
\* analyze_biometric_coverage builds it
generate_biometric_insight(res) ==
    LET bio == Get(res, "biometric_metrics", EmptyMap)
    IN  IF ~Truthy(bio) THEN EmptyMap
        ELSE
        LET bio_ages == [k \in DOMAIN bio |-> Get(bio[k], "percentage", I(0))]
            avg_coverage == IF DOMAIN bio_ages # {}
                            THEN RDiv(RSumOver(bio_ages, DOMAIN bio_ages),
                                      I(Cardinality(DOMAIN bio_ages)))
                            ELSE I(0)
            band == IF RGt(avg_coverage, I(90)) THEN
                        <<"Excellent - High biometric collection", "positive">>
                    ELSE IF RGt(avg_coverage, I(70)) THEN
                        <<"Good - Solid coverage", "info">>
                    ELSE <<"Low - Needs improvement", "warning">>
        IN  Insight("BIOMETRIC COVERAGE - Fingerprint Enrollment",
                    "Biometric enrollment coverage is " \o FmtF(avg_coverage, 1) \o
                    "%. Status: " \o band[1] \o
                    ". This shows fingerprint data collection rates.",
                    "Higher biometric coverage ensures better identity verification capability.",
                    "Increase biometric collection during enrollment",
                    band[2], "biometric")

generate_update_insight(res) ==
    LET updates    == Get(res, "update_metrics", EmptyMap)
        bio_ratio  == Get(updates, "biometric_to_enrol_ratio", I(0))
        demo_ratio == Get(updates, "demographic_to_enrol_ratio", I(0))
        total_update_ratio == RAdd(bio_ratio, demo_ratio)
        band == IF RGt(total_update_ratio, R(5, 10)) THEN
                    <<"High - Frequent updates", "positive">>
                ELSE IF RGt(total_update_ratio, R(2, 10)) THEN
                    <<"Moderate - Regular updates", "info">>
                ELSE <<"Low - Limited updates", "warning">>
    IN  Insight("UPDATE FREQUENCY - System Activity",
                "Update-to-enrollment ratio is " \o FmtF(total_update_ratio, 2) \o
                ". Status: " \o band[1] \o
                ". This shows how active users are updating their data.",
                "Higher update ratios indicate engaged users maintaining accurate information.",
                "Encourage regular data updates and maintenance",
                band[2], "update")

\* mutant: the fallback for an unknown level carries the level as severity
generate_volatility_insight_rawlevel(res) ==
    LET trends           == Get(res, "trend_metrics", EmptyMap)
        volatility_level == Get(trends, "volatility_level", "Medium")
        volatility_msg ==
            [High   |-> <<"Highly Variable - Unpredictable daily changes", "warning">>,
             Medium |-> <<"Moderate Variability - Some daily fluctuation", "info">>,
             Low    |-> <<"Stable - Consistent daily patterns", "positive">>]
        band == Get(volatility_msg, volatility_level, <<"Unknown", volatility_level>>)
    IN  Insight("ENROLLMENT VOLATILITY - Stability Check",
                "Volatility Level: " \o band[1] \o
                ". This affects resource planning and forecasting.",
                volatility_level \o " volatility",
                "Optimize fixed resource allocation",
                band[2], "trend")

generate_volatility_insight(res) ==
    LET trends           == Get(res, "trend_metrics", EmptyMap)
        volatility_level == Get(trends, "volatility_level", "Medium")
        volatility_msg ==
            [High   |-> <<"Highly Variable - Unpredictable daily changes", "warning">>,
             Medium |-> <<"Moderate Variability - Some daily fluctuation", "info">>,
             Low    |-> <<"Stable - Consistent daily patterns", "positive">>]
        band == Get(volatility_msg, volatility_level, <<"Unknown", "info">>)
    IN  Insight("ENROLLMENT VOLATILITY - Stability Check",
                "Volatility Level: " \o band[1] \o
                ". This affects resource planning and forecasting.",
                volatility_level \o " volatility means daily enrollments " \o
                (IF volatility_level = "High" THEN "vary significantly"
                 ELSE IF volatility_level = "Medium" THEN "fluctuate moderately"
                 ELSE "remain stable") \o ".",
                IF volatility_level = "High" THEN "Use flexible resource planning"
                ELSE IF volatility_level = "Medium" THEN "Maintain current planning"
                ELSE "Optimize fixed resource allocation",
                band[2], "trend")

generate_capacity_insight(res) ==
    LET temporal   == Get(res, "temporal_metrics", EmptyMap)
        peak_count == Get(temporal, "peak_count", 0)
        total      == Get(temporal, "total_records", 0)
        avg_daily  == IF total > 0 THEN R(total, 365) ELSE I(total)
        utilization == IF peak_count > 0
                       THEN RMul(RDiv(avg_daily, I(peak_count)), I(100))
                       ELSE I(0)
        band == IF RGt(utilization, I(80)) THEN
                    <<"High Load - Operating near capacity", "warning">>
                ELSE IF RGt(utilization, I(50)) THEN
                    <<"Moderate Load - Good headroom", "info">>
                ELSE <<"Low Load - Plenty of capacity", "positive">>
    IN  Insight("SYSTEM CAPACITY - Load Analysis",
                "Average-to-peak utilization is " \o FmtF(utilization, 1) \o
                "%. Status: " \o band[1] \o
                ". This shows how efficiently the system capacity is being used.",
                "Capacity planning ensures it can handle peak loads without degradation.",
                IF RGt(utilization, I(80)) THEN "Upgrade infrastructure urgently"
                ELSE IF RGt(utilization, I(50)) THEN "Monitor capacity trends"
                ELSE "Maintain current capacity",
                band[2], "capacity")

-----------------------------------------------------------------------------
(* InsightGenerator: the insight list, the recommendations, the retrieval  *)
(* methods.                                                                *)

\* the thirteen generator calls of generate_all_insights, in call order
GeneratorResults(res) ==
    << generate_quality_insight(res),
       generate_temporal_insight(res),
       generate_geographic_insight(res),
       generate_demographic_insight(res),
       generate_peak_activity_insight(res),
       generate_weekly_consistency_insight(res),
       generate_state_coverage_insight(res),
       generate_gender_insight(res),
       generate_duplicates_insight(res),
       generate_biometric_insight(res),
       generate_update_insight(res),
       generate_volatility_insight(res),
       generate_capacity_insight(res) >>

\* [i for i in self.insights if i]
DropEmpty(list) == SelectSeq(list, Truthy)

\* mutant: the empty results are not filtered out
generate_all_insights_unfiltered(ins, res) == ins \o GeneratorResults(res)

\* self.insights after generate_all_insights, given self.insights before
generate_all_insights(ins, res) == DropEmpty(ins \o GeneratorResults(res))

IsCorrective(i) == Get(i, "severity", "None") \in {"critical", "warning"}
IsPositive(i) == Get(i, "severity", "None") = "positive"

DefaultRecommendations ==
    << "Monitor all key metrics regularly",
       "Maintain current data collection standards",
       "Review system performance weekly",
       "Plan quarterly improvement initiatives" >>

\* list[:n]
Take(list, n) == SubSeq(list, 1, IF Len(list) < n THEN Len(list) ELSE n)

\* mutant: one pass over the insights, every qualifying action in insight order
generate_recommendations_onepass(ins) ==
    LET both == SelectSeq(ins, LAMBDA i : IsCorrective(i) \/ IsPositive(i))
        recs == [k \in 1..Len(both) |-> Get(both[k], "action", "Review insight")]
    IN  Take(IF recs = <<>> THEN DefaultRecommendations ELSE recs, 10)

\* mutant: the reinforcements are listed before the corrective actions
generate_recommendations_positivefirst(ins) ==
    LET critical == SelectSeq(ins, IsCorrective)
        positive == SelectSeq(ins, IsPositive)
        recs == [k \in 1..Len(positive) |->
                    Get(positive[k], "action", "Continue current approach")]
                \o
                [k \in 1..Len(critical) |-> Get(critical[k], "action", "Review insight")]
    IN  Take(IF recs = <<>> THEN DefaultRecommendations ELSE recs, 10)

\* mutant: the defaults replace the list whenever nothing is corrective,
\* and the list is not cut to ten
generate_recommendations_nocap(ins) ==
    LET critical == SelectSeq(ins, IsCorrective)
        positive == SelectSeq(ins, IsPositive)
        recs == [k \in 1..Len(critical) |-> Get(critical[k], "action", "Review insight")]
    IN  IF recs = <<>> THEN DefaultRecommendations
        ELSE recs \o [k \in 1..Len(positive) |->
                         Get(positive[k], "action", "Continue current approach")]

\* self.recommendations after generate_recommendations
generate_recommendations(ins) ==
    LET critical == SelectSeq(ins, IsCorrective)
        positive == SelectSeq(ins, IsPositive)
        recs == [k \in 1..Len(critical) |-> Get(critical[k], "action", "Review insight")]
                \o
                [k \in 1..Len(positive) |->
                    Get(positive[k], "action", "Continue current approach")]
    IN  Take(IF recs = <<>> THEN DefaultRecommendations ELSE recs, 10)

get_insights_by_type(ins, insight_type) ==
    SelectSeq(ins, LAMBDA i : Get(i, "type", "None") = insight_type)

\* mutant: the severity filter compares the type tag
get_insights_by_severity_type(ins, severity) ==
    SelectSeq(ins, LAMBDA i : Get(i, "type", "None") = severity)

get_insights_by_severity(ins, severity) ==
    SelectSeq(ins, LAMBDA i : Get(i, "severity", "None") = severity)

get_key_recommendations(recs) == Take(recs, 5)

\* mutant: the warning band is tested before the critical band
get_summary_text_warnfirst(ins) ==
    LET critical == Len(SelectSeq(ins, LAMBDA i : Get(i, "severity", "None") = "critical"))
        warning  == Len(SelectSeq(ins, LAMBDA i : Get(i, "severity", "None") = "warning"))
        positive == Len(SelectSeq(ins, LAMBDA i : Get(i, "severity", "None") = "positive"))
        band == IF warning > 0 THEN
                    <<" CAUTION - Review Needed", "#f59e0b">>
                ELSE IF critical > 0 THEN
                    <<" CRITICAL - Immediate Action Required", "#ef4444">>
                ELSE <<" ON TRACK - Healthy Performance", "#10b981">>
    IN  [status |-> band[1], color |-> band[2],
         text |-> "Dashboard shows: " \o ToString(positive) \o " positive metrics, "
                  \o ToString(warning) \o " warnings, " \o ToString(critical) \o
                  " critical issues. Review details below."]

\* The banner: the f-string's interpolated parts (colour, status line and
\* the three counts it prints).
get_summary_text(ins) ==
    LET critical == Len(get_insights_by_severity(ins, "critical"))
        warning  == Len(get_insights_by_severity(ins, "warning"))
        positive == Len(get_insights_by_severity(ins, "positive"))
        band == IF critical > 0 THEN
                    <<" CRITICAL - Immediate Action Required", "#ef4444">>
                ELSE IF warning > 0 THEN
                    <<" CAUTION - Review Needed", "#f59e0b">>
                ELSE <<" ON TRACK - Healthy Performance", "#10b981">>
    IN  [status |-> band[1], color |-> band[2],
         text |-> "Dashboard shows: " \o ToString(positive) \o " positive metrics, "
                  \o ToString(warning) \o " warnings, " \o ToString(critical) \o
                  " critical issues. Review details below."]

to_json_safe(ins, recs) ==
    [insights |-> ins,
     recommendations |-> recs,
     summary |-> [total_insights |-> Len(ins),
                  critical |-> Len(get_insights_by_severity(ins, "critical")),
                  warning  |-> Len(get_insights_by_severity(ins, "warning")),
                  positive |-> Len(get_insights_by_severity(ins, "positive")),
                  info     |-> Len(get_insights_by_severity(ins, "info"))]]

-----------------------------------------------------------------------------
(* Metric mappings handed to InsightGenerator(analysis_results).  Each     *)
(* family is drawn from a set holding the empty dict (column unresolved or *)
(* computation failed) and mappings that land in each band of every        *)
(* generator reading the family.                                           *)

TemporalSamples ==
    { EmptyMap,
      [avg_growth_rate |-> I(2), peak_growth_rate |-> I(9), lowest_growth_rate |-> I(-4),
       trend_direction |-> "stable", peak_day |-> "01-03-2025", peak_count |-> 10,
       total_records |-> 3650,
       weekly_stats |-> [avg_weekly |-> 100, weekly_variance |-> I(40)]],
      [avg_growth_rate |-> I(7), peak_growth_rate |-> I(9), lowest_growth_rate |-> I(5),
       trend_direction |-> "upward", peak_day |-> "02-03-2025", peak_count |-> 10,
       total_records |-> 2190,
       weekly_stats |-> [avg_weekly |-> 100, weekly_variance |-> I(20)]],
      [avg_growth_rate |-> R(251, 10), peak_growth_rate |-> I(90), lowest_growth_rate |-> I(-4),
       trend_direction |-> "upward", peak_day |-> "03-03-2025", peak_count |-> 1500,
       total_records |-> 36500,
       weekly_stats |-> [avg_weekly |-> 1200, weekly_variance |-> I(5)]] }

GeographicSamples ==
    { EmptyMap,
      [herfindahl_index |-> I(4600), gini_coefficient |-> R(1, 3), top_state |-> "A",
       top_state_percentage |-> I(60), top_5_states_share |-> I(100),
       top_10_states_share |-> I(100), num_states |-> 3, concentration_level |-> "High"],
      [herfindahl_index |-> I(2200), gini_coefficient |-> R(1, 2), top_state |-> "B",
       top_state_percentage |-> R(245, 10), top_5_states_share |-> I(80),
       top_10_states_share |-> I(90), num_states |-> 25,
       concentration_level |-> "Moderate"],
      [herfindahl_index |-> I(400), gini_coefficient |-> R(1, 10), top_state |-> "C",
       top_state_percentage |-> R(625, 100), top_5_states_share |-> I(20),
       top_10_states_share |-> I(40), num_states |-> 36, concentration_level |-> "Low"] }

DemographicSamples ==
    { EmptyMap,
      [age_diversity_index |-> R(9, 10), dominant_age |-> "age_0_5",
       dominant_age_percentage |-> I(15),
       gender_distribution |-> << <<"Male", 100>>, <<"Female", 100>> >>],
      [age_diversity_index |-> R(2, 3), dominant_age |-> "age_5_17",
       dominant_age_percentage |-> R(100, 3),
       gender_distribution |-> << <<"Male", 130>>, <<"Female", 100>> >>],
      [age_diversity_index |-> R(1, 2), dominant_age |-> "age_18_greater",
       dominant_age_percentage |-> I(50),
       gender_distribution |-> << <<"Female", 100>>, <<"Male", 200>>, <<"Other", 100>> >>] }

QualitySamples ==
    { EmptyMap,
      [overall_completeness |-> I(100),
       issues |-> [duplicate_records |-> 0, zero_enrollment_records |-> 0,
                   outlier_records |-> 0, null_percentage |-> I(0), total_issues |-> 0]],
      [overall_completeness |-> I(95), total_records |-> 1000,
       issues |-> [duplicate_records |-> 1, zero_enrollment_records |-> 2,
                   outlier_records |-> 2, null_percentage |-> I(5), total_issues |-> 5]],
      [overall_completeness |-> I(90),
       issues |-> [duplicate_records |-> 10, zero_enrollment_records |-> 0,
                   outlier_records |-> 1990, null_percentage |-> I(10),
                   total_issues |-> 2000]] }

BiometricSamples ==
    { EmptyMap,
      [bio_age_5_17 |-> [count |-> 95, percentage |-> I(95)],
       bio_age_17_ |-> [count |-> 90, percentage |-> I(90)]],
      [bio_age_5_17 |-> [count |-> 80, percentage |-> I(80)]],
      [bio_age_5_17 |-> [count |-> 70, percentage |-> I(70)],
       bio_age_17_ |-> [count |-> 0]] }

UpdateSamples ==
    { EmptyMap,
      [total_enrollments |-> 10, total_biometric_updates |-> 3,
       total_demographic_updates |-> 3, biometric_to_enrol_ratio |-> R(3, 10),
       demographic_to_enrol_ratio |-> R(3, 10), biometric_update_percentage |-> I(30),
       demographic_update_percentage |-> I(30)],
      [total_enrollments |-> 10, total_biometric_updates |-> 3,
       total_demographic_updates |-> 0, biometric_to_enrol_ratio |-> R(3, 10),
       demographic_to_enrol_ratio |-> I(0), biometric_update_percentage |-> I(30),
       demographic_update_percentage |-> I(0)] }

TrendSamples ==
    { EmptyMap,
      [volatility_std |-> R(3, 2), coefficient_of_variation |-> R(3, 4),
       volatility_level |-> "High"],
      [volatility_std |-> R(1, 10), coefficient_of_variation |-> R(1, 10),
       volatility_level |-> "Low"],
      \* a level the generator's table does not know
      [volatility_level |-> "Extreme"] }

\* analysis_results as aadhaarDashboard.main compiles it: always all seven keys
MetricMappings ==
    [temporal_metrics : TemporalSamples, geographic_metrics : GeographicSamples,
     demographic_metrics : DemographicSamples, quality_metrics : QualitySamples,
     biometric_metrics : BiometricSamples, update_metrics : UpdateSamples,
     trend_metrics : TrendSamples]
    \cup {EmptyMap}

-----------------------------------------------------------------------------
(* The InsightGenerator object: construction and its public methods.       *)

\* how often generate_all_insights is called again on a constructed object
MaxRegens == 1

NoReturn == [op |-> "none"]

\* __init__: insights = [], recommendations = [], generate_all_insights()
Init ==
    /\ results \in MetricMappings
    /\ insights = generate_all_insights(<<>>, results)
    /\ recommendations = generate_recommendations(insights)
    /\ ret = NoReturn
    /\ regens = 0
    /\ df = <<>>

GenerateAllInsights ==
    /\ regens < MaxRegens
    /\ regens' = regens + 1
    /\ insights' = generate_all_insights(insights, results)
    /\ recommendations' = generate_recommendations(insights')
    /\ ret' = [op |-> "generate_all_insights"]
    /\ UNCHANGED <<results, df>>

GenerateRecommendations ==
    /\ recommendations' = generate_recommendations(insights)
    /\ ret' = [op |-> "generate_recommendations"]
    /\ UNCHANGED <<results, insights, regens, df>>

GetSummaryText ==
    /\ ret' = [op |-> "get_summary_text", value |-> get_summary_text(insights)]
    /\ UNCHANGED <<results, insights, recommendations, regens, df>>

ToJsonSafe ==
    /\ ret' = [op |-> "to_json_safe", value |-> to_json_safe(insights, recommendations)]
    /\ UNCHANGED <<results, insights, recommendations, regens, df>>

GetKeyRecommendations ==
    /\ ret' = [op |-> "get_key_recommendations",
               value |-> get_key_recommendations(recommendations)]
    /\ UNCHANGED <<results, insights, recommendations, regens, df>>

Next ==
    \/ GenerateAllInsights
    \/ GenerateRecommendations
    \/ GetSummaryText
    \/ ToJsonSafe
    \/ GetKeyRecommendations

Spec == Init /\ [][Next]_vars

-----------------------------------------------------------------------------
(* pandas / numpy helpers used by the metric calculators of analysis.py.   *)

\* Series.sum() / Series.mean(): NaN entries are skipped
RECURSIVE RSumSkipNa(_)
RSumSkipNa(s) ==
    IF s = <<>> THEN I(0)
    ELSE IF IsNaN(Head(s)) THEN RSumSkipNa(Tail(s))
    ELSE RAdd(Head(s), RSumSkipNa(Tail(s)))

CountNotNa(s) == Cardinality({i \in 1..Len(s) : ~IsNaN(s[i])})

RMeanSkipNa(s) ==
    IF CountNotNa(s) = 0 THEN NaN ELSE RDiv(RSumSkipNa(s), I(CountNotNa(s)))

RECURSIVE IntSum(_)
IntSum(s) == IF s = <<>> THEN 0 ELSE Head(s) + IntSum(Tail(s))

\* the values of column col, in row order
Column(rows, col) == [i \in 1..Len(rows) |-> rows[i][col]]

\* np.sort / sort_values on finite values: ascending, by selecting minima
RECURSIVE SortAsc(_)
SortAsc(s) ==
    IF s = <<>> THEN <<>>
    ELSE LET m == CHOOSE i \in 1..Len(s) :
                      /\ \A j \in 1..Len(s) : ~RLt(s[j], s[i])
                      /\ \A j \in 1..(i - 1) : RLt(s[i], s[j])
             rest == [k \in 1..(Len(s) - 1) |-> IF k < m THEN s[k] ELSE s[k + 1]]
         IN  <<s[m]>> \o SortAsc(rest)

\* Series.tail(n)
TailN(s, n) == IF Len(s) <= n THEN s ELSE SubSeq(s, Len(s) - n + 1, Len(s))

-----------------------------------------------------------------------------
(* GeographicAnalysis.calculate_concentration.  The dataset is the         *)
(* sequence of its rows, each with the resolved state and total columns.   *)

\* the state names of the model, in the order groupby sorts its keys
StateNames == <<"A", "B", "C", "D", "E">>

StateOrder(name) == CHOOSE k \in 1..Len(StateNames) : StateNames[k] = name

\* df.groupby(state_col)[enrol_col].sum(): the group keys in sorted order
GroupKeys(rows) ==
    LET present == {StateOrder(rows[i].state) : i \in 1..Len(rows)}
        keyAt(k) == CHOOSE o \in present : Cardinality({p \in present : p < o}) = k - 1
    IN  [k \in 1..Cardinality(present) |-> StateNames[keyAt(k)]]

\* mutant: each group keeps its first row instead of the sum of its rows
GroupSums_first(rows) ==
    LET keys == GroupKeys(rows)
    IN  [k \in 1..Len(keys) |->
            Head(Column(SelectSeq(rows, LAMBDA r : r.state = keys[k]), "total"))]

\* ... and the per-group sums, in key order
GroupSums(rows) ==
    LET keys == GroupKeys(rows)
    IN  [k \in 1..Len(keys) |->
            IntSum(Column(SelectSeq(rows, LAMBDA r : r.state = keys[k]), "total"))]

\* shares = state_data / total * 100 (0/0 is NaN)
Shares(rows) ==
    LET state_data == GroupSums(rows)
        total == IntSum(state_data)
    IN  [k \in 1..Len(state_data) |-> RMul(RDiv(I(state_data[k]), I(total)), I(100))]

\* hhi = (shares ** 2).sum()
HerfindahlIndex(shares) == RSumSkipNa([k \in 1..Len(shares) |-> RMul(shares[k], shares[k])])

\* Series.nlargest(n).sum(): NaN entries are dropped
NLargestSum(shares, n) ==
    RSumSkipNa(TailN(SortAsc(SelectSeq(shares, LAMBDA x : ~IsNaN(x))), n))

\* position of the first largest share (idxmax / max on a series with values)
ArgMax(shares) ==
    CHOOSE i \in 1..Len(shares) :
        /\ \A j \in 1..Len(shares) : ~RGt(shares[j], shares[i])
        /\ \A j \in 1..(i - 1) : RLt(shares[j], shares[i])

\* the rank-weighted Gini formula over np.sort(shares)
Gini(shares) ==
    LET n == Len(shares)
    IN  IF \E k \in 1..n : IsNaN(shares[k]) THEN NaN
        ELSE LET sorted == SortAsc(shares)
                 weighted == RSum([k \in 1..n |-> RMul(I(k), sorted[k])])
             IN  RSub(RDiv(RMul(I(2), weighted), RMul(I(n), RSum(sorted))),
                      R(n + 1, n))

\* mutant: the calculator's bands include their lower edge
ConcentrationLevel_inclusive(hhi) ==
    IF RGe(hhi, I(2500)) THEN "High"
    ELSE IF RGe(hhi, I(2000)) THEN "Moderate"
    ELSE "Low"

ConcentrationLevel(hhi) ==
    IF RGt(hhi, I(2500)) THEN "High"
    ELSE IF RGt(hhi, I(2000)) THEN "Moderate"
    ELSE "Low"

\* calculate_concentration on a dataset whose state and total columns
\* resolve.  Two steps can raise, and any exception returns {}: (n + 1) / n
\* on a dataset without rows, and shares.idxmax() on all-NaN shares (zero
\* grand total), which returns NaN or raises depending on the pandas
\* release: idxmaxRaises picks the outcome.
calculate_concentration(rows, idxmaxRaises) ==
    LET state_data == GroupSums(rows)
        shares == Shares(rows)
        hhi == HerfindahlIndex(shares)
        n == Len(shares)
        allNa == \A k \in 1..n : IsNaN(shares[k])
    IN  IF n = 0 THEN EmptyMap
        ELSE IF allNa /\ idxmaxRaises THEN EmptyMap
        ELSE
        [herfindahl_index |-> hhi,
         gini_coefficient |-> Gini(shares),
         top_state |-> IF allNa THEN "nan" ELSE GroupKeys(rows)[ArgMax(shares)],
         top_state_percentage |-> IF allNa THEN NaN ELSE shares[ArgMax(shares)],
         top_5_states_share |-> NLargestSum(shares, 5),
         top_10_states_share |-> NLargestSum(shares, 10),
         num_states |-> Len(state_data),
         concentration_level |-> ConcentrationLevel(hhi)]

-----------------------------------------------------------------------------
(* Specification SpecGeo: calculate_concentration on a dataset, then       *)
(* generate_geographic_insight on its result.                              *)

\* row totals of the geographic datasets
GeoTotals == <<0, 1, 3>>

\* datasets of up to MaxRows rows are drawn with their rows in key order,
\* datasets of up to MaxShuffledRows rows in every row order
MaxRows == 5
MaxShuffledRows == 3

GeoRowCount == Len(StateNames) * Len(GeoTotals)

GeoRow(code) ==
    [state |-> StateNames[(code \div Len(GeoTotals)) + 1],
     total |-> GeoTotals[(code % Len(GeoTotals)) + 1]]

\* the sequences of n row codes, each >= lo, in non-decreasing order
RECURSIVE SortedCodes(_, _)
SortedCodes(n, lo) ==
    IF n = 0 THEN {<<>>}
    ELSE UNION {{<<c>> \o t : t \in SortedCodes(n - 1, c)} : c \in lo..(GeoRowCount - 1)}

GeoDatasets ==
    LET codes == UNION {SortedCodes(n, 0) : n \in 0..MaxRows}
                 \cup UNION {[1..n -> 0..(GeoRowCount - 1)] : n \in 0..MaxShuffledRows}
    IN  {[i \in 1..Len(c) |-> GeoRow(c[i])] : c \in codes}

InitGeo ==
    /\ df \in GeoDatasets
    /\ results = EmptyMap
    /\ insights = <<>>
    /\ recommendations = <<>>
    /\ ret = NoReturn
    /\ regens = 0

\* geo_analyzer.calculate_concentration() into analysis_results
CalculateConcentration ==
    /\ ret.op = "none"
    /\ \E idxmaxRaises \in BOOLEAN :
          results' = [geographic_metrics |-> calculate_concentration(df, idxmaxRaises)]
    /\ ret' = [op |-> "calculate_concentration"]
    /\ UNCHANGED <<insights, recommendations, regens, df>>

GenerateGeographicInsight ==
    /\ ret.op = "calculate_concentration"
    /\ insights' = <<generate_geographic_insight(results)>>
    /\ ret' = [op |-> "generate_geographic_insight"]
    /\ UNCHANGED <<results, recommendations, regens, df>>

NextGeo == CalculateConcentration \/ GenerateGeographicInsight

SpecGeo == InitGeo /\ [][NextGeo]_vars

-----------------------------------------------------------------------------
(* AdvancedTemporalAnalysis.calculate_growth_rate.  The dataset is the     *)
(* sequence of its rows, each with the resolved date and total columns; a  *)
(* date is a day number (the loader parses the column to datetimes).       *)

\* df.groupby(date_col)[enrol_col].sum().reset_index().sort_values(date_col)
DailyData(rows) ==
    LET days == {rows[i].date : i \in 1..Len(rows)}
        dayAt(k) == CHOOSE d \in days : Cardinality({e \in days : e < d}) = k - 1
    IN  [k \in 1..Cardinality(days) |->
            [date |-> dayAt(k),
             total |-> IntSum(Column(SelectSeq(rows, LAMBDA r : r.date = dayAt(k)),
                                     "total"))]]

\* Series.pct_change() * 100: x / x.shift(1) - 1, NaN in the first place
PctChange(totals) ==
    [k \in 1..Len(totals) |->
        IF k = 1 THEN NaN
        ELSE RMul(RSub(RDiv(I(totals[k]), I(totals[k - 1])), I(1)), I(100))]

\* Series.max() / Series.min(): NaN entries are skipped
RMaxSkipNa(s) ==
    IF CountNotNa(s) = 0 THEN NaN
    ELSE s[CHOOSE i \in 1..Len(s) :
               ~IsNaN(s[i]) /\ \A j \in 1..Len(s) : ~RGt(s[j], s[i])]
RMinSkipNa(s) ==
    IF CountNotNa(s) = 0 THEN NaN
    ELSE s[CHOOSE i \in 1..Len(s) :
               ~IsNaN(s[i]) /\ \A j \in 1..Len(s) : ~RLt(s[j], s[i])]

\* Series.idxmax() on integers: the first position of the largest value
IntArgMax(s) ==
    CHOOSE i \in 1..Len(s) :
        /\ \A j \in 1..Len(s) : s[j] <= s[i]
        /\ \A j \in 1..(i - 1) : s[j] < s[i]

\* str() of a parsed date: the model's day d is day d of March 2025, and
\* the days past 31 run on into April
DateStr(d) ==
    IF d <= 31 THEN "2025-03-" \o ZeroPad(ToString(d), 2) \o " 00:00:00"
    ELSE "2025-04-" \o ZeroPad(ToString(d - 31), 2) \o " 00:00:00"

\* mutant: the trend bands include their edge
TrendDirection_inclusive(recent_growth) ==
    IF RGe(recent_growth, I(5)) THEN "upward"
    ELSE IF RGe(I(-5), recent_growth) THEN "downward"
    ELSE "stable"

TrendDirection(recent_growth) ==
    IF RGt(recent_growth, I(5)) THEN "upward"
    ELSE IF RLt(recent_growth, I(-5)) THEN "downward"
    ELSE "stable"

\* mutant: the recent growth is the mean over the whole series
RecentGrowth_all(growth) == RMeanSkipNa(growth)

\* daily_data['growth'].tail(10).mean()
RecentGrowth(growth) == RMeanSkipNa(TailN(growth, 10))

\* calculate_growth_rate on a dataset whose date and total columns resolve
calculate_growth_rate(rows) ==
    LET daily_data == DailyData(rows)
        totals == Column(daily_data, "total")
        growth == PctChange(totals)
    IN  IF Len(daily_data) < 2 THEN
            [avg_growth_rate |-> I(0), trend_direction |-> "stable", peak_day |-> "None"]
        ELSE
            [avg_growth_rate |-> RMeanSkipNa(growth),
             peak_growth_rate |-> RMaxSkipNa(growth),
             lowest_growth_rate |-> RMinSkipNa(growth),
             trend_direction |-> TrendDirection(RecentGrowth(growth)),
             peak_day |-> DateStr(daily_data[IntArgMax(totals)].date),
             peak_count |-> totals[IntArgMax(totals)],
             total_records |-> IntSum(totals)]

-----------------------------------------------------------------------------
(* Specification SpecTemporal: calculate_growth_rate on a dataset.         *)

\* short datasets: up to MaxTemporalRows rows in any order, on the ShortDays;
\* long datasets: one row a day for up to MaxPeriods days
MaxTemporalRows == 3
MaxPeriods == 12
ShortDays == 1..3
ShortTotals == {0, 19, 20, 21}
LongTotals == {20, 40}

TemporalDatasets ==
    UNION {[1..n -> [date : ShortDays, total : ShortTotals]] : n \in 0..MaxTemporalRows}
    \cup UNION {{[d \in 1..n |-> [date |-> d, total |-> t[d]]] : t \in [1..n -> LongTotals]}
                : n \in 0..MaxPeriods}

InitTemporal ==
    /\ df \in TemporalDatasets
    /\ results = EmptyMap
    /\ insights = <<>>
    /\ recommendations = <<>>
    /\ ret = NoReturn
    /\ regens = 0

\* temporal_analyzer.calculate_growth_rate() into analysis_results
CalculateGrowthRate ==
    /\ ret.op = "none"
    /\ results' = [temporal_metrics |-> calculate_growth_rate(df)]
    /\ ret' = [op |-> "calculate_growth_rate"]
    /\ UNCHANGED <<insights, recommendations, regens, df>>

GenerateTemporalInsight ==
    /\ ret.op = "calculate_growth_rate"
    /\ insights' = <<generate_temporal_insight(results)>>
    /\ ret' = [op |-> "generate_temporal_insight"]
    /\ UNCHANGED <<results, recommendations, regens, df>>

NextTemporal == CalculateGrowthRate \/ GenerateTemporalInsight

SpecTemporal == InitTemporal /\ [][NextTemporal]_vars

-----------------------------------------------------------------------------
(* DemographicAnalysis.analyze_age_distribution.  The dataset is the       *)
(* sequence of its rows; its age columns are the ones the loader keeps.    *)

\* _find_age_columns: the columns whose name holds 'age', in column order
AgeCols == <<"age_0_5", "age_5_17", "age_18_greater">>
AgeColSet == {AgeCols[i] : i \in 1..Len(AgeCols)}

\* age_totals[col] = int(self.df[col].sum())
AgeTotals(rows) == [c \in AgeColSet |-> IntSum(Column(rows, c))]

\* mutant: the share is divided out whatever the total
AgePercentage_unguarded(v, total) == RMul(RDiv(I(v), I(total)), I(100))

\* (v / total * 100) if total > 0 else 0
AgePercentage(v, total) ==
    IF total > 0 THEN RMul(RDiv(I(v), I(total)), I(100)) ELSE I(0)

\* max(age_percentages.items(), key=lambda x: x[1]): the first column, in
\* column order, among those with the largest share
DominantAge(pcts) ==
    AgeCols[CHOOSE i \in 1..Len(AgeCols) :
                /\ \A j \in 1..Len(AgeCols) : ~RGt(pcts[AgeCols[j]], pcts[AgeCols[i]])
                /\ \A j \in 1..(i - 1) : RLt(pcts[AgeCols[j]], pcts[AgeCols[i]])]

\* mutant: the diversity sums the shares without squaring them
AgeDiversity_unsquared(age_totals, total) ==
    LET fractions == [c \in AgeColSet |-> RDiv(I(age_totals[c]), I(total))]
    IN  IF total > 0 THEN RSub(I(1), RSumOver(fractions, AgeColSet)) ELSE I(0)

\* 1 - sum([(v / total) ** 2 for v in age_totals.values()]) if total > 0 else 0
AgeDiversity(age_totals, total) ==
    LET squares == [c \in AgeColSet |->
                       RMul(RDiv(I(age_totals[c]), I(total)), RDiv(I(age_totals[c]), I(total)))]
    IN  IF total > 0 THEN RSub(I(1), RSumOver(squares, AgeColSet)) ELSE I(0)

\* analyze_age_distribution on a dataset with the age columns.  The entropy
\* is a sum of logarithms: it is carried as the expression, not evaluated.
analyze_age_distribution(rows) ==
    LET age_totals == AgeTotals(rows)
        total == IntSum([i \in 1..Len(AgeCols) |-> age_totals[AgeCols[i]]])
        age_percentages == [c \in AgeColSet |-> AgePercentage(age_totals[c], total)]
        diversity == AgeDiversity(age_totals, total)
        entropy == IF total > 0 THEN "-sum(p * log(p + 1e-10))" ELSE "0"
        dominant_age == DominantAge(age_percentages)
    IN  [age_diversity_index |-> diversity,
         entropy |-> entropy,
         dominant_age |-> dominant_age,
         dominant_age_percentage |-> age_percentages[dominant_age],
         age_groups |-> age_percentages,
         age_totals |-> age_totals]

-----------------------------------------------------------------------------
(* Specification SpecDemo: analyze_age_distribution on a dataset.          *)

MaxAgeRows == 2
AgeCells == {-1, 0, 2}

AgeDatasets ==
    UNION {[1..n -> [age_0_5 : AgeCells, age_5_17 : AgeCells, age_18_greater : AgeCells]]
           : n \in 0..MaxAgeRows}

InitDemo ==
    /\ df \in AgeDatasets
    /\ results = EmptyMap
    /\ insights = <<>>
    /\ recommendations = <<>>
    /\ ret = NoReturn
    /\ regens = 0

\* demo_analyzer.analyze_age_distribution() into analysis_results
AnalyzeAgeDistribution ==
    /\ ret.op = "none"
    /\ results' = [demographic_metrics |-> analyze_age_distribution(df)]
    /\ ret' = [op |-> "analyze_age_distribution"]
    /\ UNCHANGED <<insights, recommendations, regens, df>>

GenerateDemographicInsight ==
    /\ ret.op = "analyze_age_distribution"
    /\ insights' = <<generate_demographic_insight(results)>>
    /\ ret' = [op |-> "generate_demographic_insight"]
    /\ UNCHANGED <<results, recommendations, regens, df>>

NextDemo == AnalyzeAgeDistribution \/ GenerateDemographicInsight

SpecDemo == InitDemo /\ [][NextDemo]_vars

-----------------------------------------------------------------------------
(* DataQualityAnalysis.calculate_completeness.  The dataset is a frame:    *)
(* its column names and its rows, each row a cell for every column; a      *)
(* missing cell holds NA.                                                  *)

NA == "NA"

\* df.count(): the non-missing cells of each column
ColumnCount(frame) ==
    [c \in 1..Len(frame.columns) |->
        Cardinality({r \in 1..Len(frame.rows) : frame.rows[r][c] # NA})]

\* mutant: the cells are counted as the rows
TotalCells_rows(frame) == Len(frame.rows)

\* self.df.shape[0] * self.df.shape[1]
TotalCells(frame) == Len(frame.rows) * Len(frame.columns)

\* df.count().sum()
NonNullCells(frame) == IntSum(ColumnCount(frame))

\* calculate_completeness: the column shares divide by len(df), where 0 / 0
\* is NaN
calculate_completeness(frame) ==
    LET total_cells == TotalCells(frame)
        non_null_cells == NonNullCells(frame)
        completeness == IF total_cells > 0
                        THEN RMul(RDiv(I(non_null_cells), I(total_cells)), I(100))
                        ELSE I(0)
        counts == ColumnCount(frame)
    IN  [overall_completeness |-> completeness,
         column_completeness |->
             [c \in {frame.columns[i] : i \in 1..Len(frame.columns)} |->
                 LET i == CHOOSE k \in 1..Len(frame.columns) : frame.columns[k] = c
                 IN  RMul(RDiv(I(counts[i]), I(Len(frame.rows))), I(100))],
         null_percentage |-> RSub(I(100), completeness)]

-----------------------------------------------------------------------------
(* Specification SpecQuality: calculate_completeness on a frame.           *)

MaxQualityRows == 3
MaxQualityCols == 2
QualityColumnNames == <<"date", "state", "total", "age_0_5">>
QualityCells == {NA, "1"}

QualityFrames ==
    UNION {UNION {{[columns |-> SubSeq(QualityColumnNames, 1, nc), rows |-> rs]
                   : rs \in [1..nr -> [1..nc -> QualityCells]]}
                  : nr \in 0..MaxQualityRows}
           : nc \in 0..MaxQualityCols}

InitQuality ==
    /\ df \in QualityFrames
    /\ results = EmptyMap
    /\ insights = <<>>
    /\ recommendations = <<>>
    /\ ret = NoReturn
    /\ regens = 0

\* quality_analyzer.calculate_completeness(): the dashboard keeps the
\* overall_completeness of the returned mapping
CalculateCompleteness ==
    /\ ret.op = "none"
    /\ ret' = [op |-> "calculate_completeness", value |-> calculate_completeness(df)]
    /\ results' = [quality_metrics |->
                      [overall_completeness |->
                          Get(calculate_completeness(df), "overall_completeness", I(0))]]
    /\ UNCHANGED <<insights, recommendations, regens, df>>

NextQuality == CalculateCompleteness

SpecQuality == InitQuality /\ [][NextQuality]_vars

-----------------------------------------------------------------------------
(* The column resolvers of the analyzers.  A column name is a string; the  *)
(* columns of a dataset are the sequence of its names in column order.     *)

UpperLetters == "ABCDEFGHIJKLMNOPQRSTUVWXYZ"
LowerLetters == "abcdefghijklmnopqrstuvwxyz"

\* str.lower() of one character
LowerChar(ch) ==
    IF \E k \in 1..Len(UpperLetters) : SubSeq(UpperLetters, k, k) = ch
    THEN LET k == CHOOSE k \in 1..Len(UpperLetters) : SubSeq(UpperLetters, k, k) = ch
         IN  SubSeq(LowerLetters, k, k)
    ELSE ch

\* str.lower()
RECURSIVE Lower(_)
Lower(name) ==
    IF Len(name) = 0 THEN ""
    ELSE LowerChar(SubSeq(name, 1, 1)) \o Lower(SubSeq(name, 2, Len(name)))

\* keyword in text
Contains(text, keyword) ==
    \E i \in 1..(Len(text) - Len(keyword) + 1) :
        SubSeq(text, i, i + Len(keyword) - 1) = keyword

\* the test of a resolver's loop: one of the keywords is in col.lower()
Matches(col, keywords) == \E kw \in keywords : Contains(Lower(col), kw)

None == "None"

\* mutant: the loop keeps the last matching column
FindColumn_last(columns, keywords) ==
    IF \E i \in 1..Len(columns) : Matches(columns[i], keywords)
    THEN columns[CHOOSE i \in 1..Len(columns) :
                     /\ Matches(columns[i], keywords)
                     /\ \A j \in (i + 1)..Len(columns) : ~Matches(columns[j], keywords)]
    ELSE None

\* for col in self.df.columns: if <keyword> in col.lower(): return col;
\* return None
FindColumn(columns, keywords) ==
    IF \E i \in 1..Len(columns) : Matches(columns[i], keywords)
    THEN columns[CHOOSE i \in 1..Len(columns) :
                     /\ Matches(columns[i], keywords)
                     /\ \A j \in 1..(i - 1) : ~Matches(columns[j], keywords)]
    ELSE None

\* [col for col in df.columns if <keyword> in col.lower()]
FindColumns(columns, keywords) ==
    SelectSeq(columns, LAMBDA col : Matches(col, keywords))

\* the resolvers of the analyzer classes
Temporal_find_date_column(columns) == FindColumn(columns, {"date"})
Temporal_find_enrollment_column(columns) == FindColumn(columns, {"total", "enrol"})
Geo_find_state_column(columns) == FindColumn(columns, {"state"})
Geo_find_district_column(columns) == FindColumn(columns, {"district"})
Geo_find_enrollment_column(columns) == FindColumn(columns, {"total"})
Demo_find_age_columns(columns) == FindColumns(columns, {"age"})
Demo_find_gender_column(columns) == FindColumn(columns, {"gender"})
Bio_age_cols(columns) == FindColumns(columns, {"bioage"})
Trend_find_date_column(columns) == FindColumn(columns, {"date"})
Trend_find_enrollment_column(columns) == FindColumn(columns, {"total"})

-----------------------------------------------------------------------------
(* Specification SpecColumns: the analyzers constructed on a dataset of    *)
(* given columns.                                                          *)

MaxColumns == 3
ColumnNames ==
    {"Date", "update_date", "State_Code", "district", "total",
     "enrolment_id", "gender", "age_0_5", "pincode"}

ColumnLists == UNION {[1..n -> ColumnNames] : n \in 0..MaxColumns}

InitColumns ==
    /\ df \in {[columns |-> cols, rows |-> <<>>] : cols \in ColumnLists}
    /\ results = EmptyMap
    /\ insights = <<>>
    /\ recommendations = <<>>
    /\ ret = NoReturn
    /\ regens = 0

NewTemporalAnalysis ==
    /\ ret.op = "none"
    /\ ret' = [op |-> "AdvancedTemporalAnalysis",
               date_col |-> Temporal_find_date_column(df.columns),
               enrol_col |-> Temporal_find_enrollment_column(df.columns)]
    /\ UNCHANGED <<results, insights, recommendations, regens, df>>

NewGeographicAnalysis ==
    /\ ret.op = "none"
    /\ ret' = [op |-> "GeographicAnalysis",
               state_col |-> Geo_find_state_column(df.columns),
               district_col |-> Geo_find_district_column(df.columns),
               enrol_col |-> Geo_find_enrollment_column(df.columns)]
    /\ UNCHANGED <<results, insights, recommendations, regens, df>>

NewDemographicAnalysis ==
    /\ ret.op = "none"
    /\ ret' = [op |-> "DemographicAnalysis",
               age_cols |-> Demo_find_age_columns(df.columns),
               gender_col |-> Demo_find_gender_column(df.columns)]
    /\ UNCHANGED <<results, insights, recommendations, regens, df>>

NewBiometricAnalysis ==
    /\ ret.op = "none"
    /\ ret' = [op |-> "BiometricAnalysis", bio_age_cols |-> Bio_age_cols(df.columns)]
    /\ UNCHANGED <<results, insights, recommendations, regens, df>>

NewTrendAnalysis ==
    /\ ret.op = "none"
    /\ ret' = [op |-> "TrendAnalysis",
               date_col |-> Trend_find_date_column(df.columns),
               enrol_col |-> Trend_find_enrollment_column(df.columns)]
    /\ UNCHANGED <<results, insights, recommendations, regens, df>>

NextColumns ==
    \/ NewTemporalAnalysis
    \/ NewGeographicAnalysis
    \/ NewDemographicAnalysis
    \/ NewBiometricAnalysis
    \/ NewTrendAnalysis

SpecColumns == InitColumns /\ [][NextColumns]_vars

-----------------------------------------------------------------------------
(* The four computations of AdvancedTemporalAnalysis on a frame.  A frame  *)
(* of this section has two columns, the one of the days and the one of the *)
(* counts, under the names its columns list gives; a row holds the day as  *)
(* its date and the count as its total.                                    *)

\* the guard of the four methods: not self.date_col or not self.enrol_col
TemporalUnresolved(frame) ==
    \/ Temporal_find_date_column(frame.columns) = None
    \/ Temporal_find_enrollment_column(frame.columns) = None

\* mutant: fewer than two periods give the empty mapping
growth_rate_of_emptyshort(frame) ==
    IF TemporalUnresolved(frame) \/ Len(DailyData(frame.rows)) < 2 THEN EmptyMap
    ELSE calculate_growth_rate(frame.rows)

\* calculate_growth_rate with its column guard
growth_rate_of(frame) ==
    IF TemporalUnresolved(frame) THEN EmptyMap
    ELSE calculate_growth_rate(frame.rows)

\* Series.quantile(q) of integers, q = qn/qd: linear interpolation between
\* the two order statistics around position q * (n - 1); NaN when empty
Quantile(values, qn, qd) ==
    LET sorted == SortAsc([i \in 1..Len(values) |-> I(values[i])])
        n == Len(values)
        lo == (qn * (n - 1)) \div qd
        frac == RSub(R(qn * (n - 1), qd), I(lo))
    IN  IF n = 0 THEN NaN
        ELSE IF lo + 2 > n THEN sorted[lo + 1]
        ELSE RAdd(sorted[lo + 1], RMul(frac, RSub(sorted[lo + 2], sorted[lo + 1])))

\* mutant: a total on the upper fence is flagged
detect_anomalous_days_halfopen(frame) ==
    IF TemporalUnresolved(frame) THEN <<>>
    ELSE LET daily_data == DailyData(frame.rows)
             totals == Column(daily_data, "total")
             Q1 == Quantile(totals, 1, 4)
             Q3 == Quantile(totals, 3, 4)
             IQR == RSub(Q3, Q1)
             lower_bound == RSub(Q1, RMul(R(3, 2), IQR))
             upper_bound == RAdd(Q3, RMul(R(3, 2), IQR))
         IN  SelectSeq(daily_data,
                       LAMBDA r : RLt(I(r.total), lower_bound) \/ RGe(I(r.total), upper_bound))

\* detect_anomalous_days: the days outside the 1.5 IQR fences
detect_anomalous_days(frame) ==
    IF TemporalUnresolved(frame) THEN <<>>
    ELSE LET daily_data == DailyData(frame.rows)
             totals == Column(daily_data, "total")
             Q1 == Quantile(totals, 1, 4)
             Q3 == Quantile(totals, 3, 4)
             IQR == RSub(Q3, Q1)
             lower_bound == RSub(Q1, RMul(R(3, 2), IQR))
             upper_bound == RAdd(Q3, RMul(R(3, 2), IQR))
         IN  SelectSeq(daily_data,
                       LAMBDA r : RLt(I(r.total), lower_bound) \/ RGt(I(r.total), upper_bound))

\* dt.isocalendar().week of the model's days: 1 March 2025 is the Saturday
\* of ISO week 9
IsoWeek(d) == 9 + ((d + 4) \div 7)

\* dt.to_period('M') of the model's days
YearMonth(d) == IF d <= 31 THEN "2025-03" ELSE "2025-04"

\* the sorted distinct weeks of the rows
WeekKeys(rows) ==
    LET ks == {IsoWeek(rows[i].date) : i \in 1..Len(rows)}
    IN  [k \in 1..Cardinality(ks) |->
            CHOOSE x \in ks : Cardinality({y \in ks : y < x}) = k - 1]

\* groupby('week')[enrol_col].agg(['sum', ...]): the sums, in week order
WeeklySums(rows) ==
    [k \in 1..Len(WeekKeys(rows)) |->
        IntSum(Column(SelectSeq(rows, LAMBDA r : IsoWeek(r.date) = WeekKeys(rows)[k]),
                      "total"))]

\* Series.std(): the sample standard deviation, NaN below two values; the
\* square root stays an expression over the exact variance
SampleStd(values) ==
    LET n == Len(values)
        mean == RDiv(I(IntSum(values)), I(n))
        devs == [i \in 1..n |-> RMul(RSub(I(values[i]), mean), RSub(I(values[i]), mean))]
    IN  [sqrt |-> IF n < 2 THEN NaN ELSE RDiv(RSum(devs), I(n - 1))]

IntMax(values) == values[CHOOSE i \in 1..Len(values) : \A j \in 1..Len(values) : values[j] <= values[i]]
IntMin(values) == values[CHOOSE i \in 1..Len(values) : \A j \in 1..Len(values) : values[j] >= values[i]]

\* get_weekly_statistics: int() of the mean of no week raises, which the
\* method turns into the empty mapping
get_weekly_statistics(frame) ==
    IF TemporalUnresolved(frame) THEN EmptyMap
    ELSE LET sums == WeeklySums(frame.rows)
         IN  IF Len(sums) = 0 THEN EmptyMap
             ELSE [avg_weekly |-> IntSum(sums) \div Len(sums),
                   best_week |-> IntMax(sums),
                   worst_week |-> IntMin(sums),
                   weekly_variance |-> SampleStd(sums)]

\* get_monthly_trends: one row a month, in month order
get_monthly_trends(frame) ==
    IF TemporalUnresolved(frame) THEN <<>>
    ELSE LET months == SelectSeq(<<"2025-03", "2025-04">>,
                           LAMBDA m : \E i \in 1..Len(frame.rows) :
                                          YearMonth(frame.rows[i].date) = m)
         IN  [k \in 1..Len(months) |->
                 [Month |-> months[k],
                  Enrollments |->
                      IntSum(Column(SelectSeq(frame.rows,
                                        LAMBDA r : YearMonth(r.date) = months[k]), "total"))]]

-----------------------------------------------------------------------------
(* Specification SpecPeriods: the four temporal computations on a frame.   *)

\* short frames: up to MaxPeriodRows rows in any order over PeriodDays;
\* series: one row a day for up to MaxSeriesDays days
MaxPeriodRows == 3
MaxSeriesDays == 5
PeriodDays == {1, 2, 32}
PeriodTotals == {0, 5, 50}
SeriesTotals == {5, 50}
PeriodLayouts ==
    {<<"date", "total">>, <<"Date", "enrolments">>, <<"day", "total">>, <<"date", "count">>}

PeriodRowLists ==
    UNION {[1..n -> [date : PeriodDays, total : PeriodTotals]] : n \in 0..MaxPeriodRows}
    \cup UNION {{[d \in 1..n |-> [date |-> d, total |-> t[d]]] : t \in [1..n -> SeriesTotals]}
                : n \in 0..MaxSeriesDays}

InitPeriods ==
    /\ df \in {[columns |-> cols, rows |-> rs] : cols \in PeriodLayouts, rs \in PeriodRowLists}
    /\ results = EmptyMap
    /\ insights = <<>>
    /\ recommendations = <<>>
    /\ ret = NoReturn
    /\ regens = 0

GrowthRate ==
    /\ ret.op = "none"
    /\ ret' = [op |-> "calculate_growth_rate", value |-> growth_rate_of(df)]
    /\ UNCHANGED <<results, insights, recommendations, regens, df>>

DetectAnomalousDays ==
    /\ ret.op = "none"
    /\ ret' = [op |-> "detect_anomalous_days", value |-> detect_anomalous_days(df)]
    /\ UNCHANGED <<results, insights, recommendations, regens, df>>

GetWeeklyStatistics ==
    /\ ret.op = "none"
    /\ ret' = [op |-> "get_weekly_statistics", value |-> get_weekly_statistics(df)]
    /\ UNCHANGED <<results, insights, recommendations, regens, df>>

GetMonthlyTrends ==
    /\ ret.op = "none"
    /\ ret' = [op |-> "get_monthly_trends", value |-> get_monthly_trends(df)]
    /\ UNCHANGED <<results, insights, recommendations, regens, df>>

NextPeriods == GrowthRate \/ DetectAnomalousDays \/ GetWeeklyStatistics \/ GetMonthlyTrends

SpecPeriods == InitPeriods /\ [][NextPeriods]_vars

-----------------------------------------------------------------------------
(* The try/except shells of the metric calculators.  The body of a try     *)
(* either raises, with the message of its exception, or comes to a value.  *)

\* calculate_growth_rate: except Exception as e: return {'error': str(e)}
growth_rate_except(body) ==
    IF body.raised THEN [error |-> body.message] ELSE body.value

\* the other calculators: except Exception as e: return {}
returns_empty_on_error(body) ==
    IF body.raised THEN EmptyMap ELSE body.value

calculate_concentration_except(body) == returns_empty_on_error(body)
analyze_age_distribution_except(body) == returns_empty_on_error(body)
calculate_completeness_except(body) == returns_empty_on_error(body)
identify_data_quality_issues_except(body) == returns_empty_on_error(body)
analyze_biometric_coverage_except(body) == returns_empty_on_error(body)
calculate_update_ratios_except(body) == returns_empty_on_error(body)
get_volatility_metrics_except(body) == returns_empty_on_error(body)

\* m with key k set to v
Put(m, k, v) == [x \in DOMAIN m \cup {k} |-> IF x = k THEN v ELSE m[x]]

-----------------------------------------------------------------------------
(* Specification SpecFamilies: the deep analysis of one render, calculator *)
(* by calculator in the order of the analysis_results literal, with the    *)
(* bodies that raise chosen beforehand.                                    *)

MaxRaised == 2
CalculatorOrder ==
    <<"calculate_growth_rate", "calculate_concentration", "analyze_age_distribution",
      "calculate_completeness", "identify_data_quality_issues",
      "analyze_biometric_coverage", "calculate_update_ratios", "get_volatility_metrics">>
Calculators == {CalculatorOrder[i] : i \in 1..Len(CalculatorOrder)}

\* what the bodies come to when they do not raise: two values a family
ComputedMappings ==
    {m \in MetricMappings :
        /\ m # EmptyMap
        /\ \A k \in DOMAIN m : m[k] # EmptyMap
        /\ m.temporal_metrics.trend_direction = "upward"
        /\ m.geographic_metrics.concentration_level \in {"High", "Low"}
        /\ m.demographic_metrics.dominant_age \in {"age_0_5", "age_5_17"}
        /\ m.quality_metrics.overall_completeness \in {I(100), I(95)}
        /\ m.biometric_metrics.bio_age_5_17.count \in {95, 80}
        /\ "volatility_std" \in DOMAIN m.trend_metrics}

ErrorMessage == "unsupported operand type(s) for /: 'str' and 'str'"

\* the body of a calculator in this render
Body(method) ==
    [raised |-> method \in df.raised,
     message |-> ErrorMessage,
     value |-> CASE method = "calculate_growth_rate" -> df.computed.temporal_metrics
                 [] method = "calculate_concentration" -> df.computed.geographic_metrics
                 [] method = "analyze_age_distribution" -> df.computed.demographic_metrics
                 [] method = "calculate_completeness" ->
                        [overall_completeness |-> df.computed.quality_metrics.overall_completeness,
                         null_percentage |->
                             RSub(I(100), df.computed.quality_metrics.overall_completeness)]
                 [] method = "identify_data_quality_issues" -> df.computed.quality_metrics.issues
                 [] method = "analyze_biometric_coverage" -> df.computed.biometric_metrics
                 [] method = "calculate_update_ratios" -> df.computed.update_metrics
                 [] method = "get_volatility_metrics" -> df.computed.trend_metrics]

InitFamilies ==
    /\ df \in {[computed |-> m, raised |-> S] :
                 m \in ComputedMappings,
                 S \in {T \in SUBSET Calculators : Cardinality(T) <= MaxRaised}}
    /\ results = EmptyMap
    /\ insights = <<>>
    /\ recommendations = <<>>
    /\ ret = NoReturn
    /\ regens = 0

\* each entry of the analysis_results literal: the calculator returns and
\* its mapping goes under the family's key
DeepTemporal ==
    /\ ret.op = "none"
    /\ ret' = [op |-> "calculate_growth_rate",
               value |-> growth_rate_except(Body("calculate_growth_rate"))]
    /\ results' = Put(results, "temporal_metrics",
                      growth_rate_except(Body("calculate_growth_rate")))
    /\ UNCHANGED <<insights, recommendations, regens, df>>

DeepGeographic ==
    /\ ret.op = "calculate_growth_rate"
    /\ ret' = [op |-> "calculate_concentration",
               value |-> calculate_concentration_except(Body("calculate_concentration"))]
    /\ results' = Put(results, "geographic_metrics",
                      calculate_concentration_except(Body("calculate_concentration")))
    /\ UNCHANGED <<insights, recommendations, regens, df>>

DeepDemographic ==
    /\ ret.op = "calculate_concentration"
    /\ ret' = [op |-> "analyze_age_distribution",
               value |-> analyze_age_distribution_except(Body("analyze_age_distribution"))]
    /\ results' = Put(results, "demographic_metrics",
                      analyze_age_distribution_except(Body("analyze_age_distribution")))
    /\ UNCHANGED <<insights, recommendations, regens, df>>

\* 'overall_completeness': calculate_completeness().get('overall_completeness', 0)
DeepCompleteness ==
    /\ ret.op = "analyze_age_distribution"
    /\ ret' = [op |-> "calculate_completeness",
               value |-> calculate_completeness_except(Body("calculate_completeness"))]
    /\ results' = Put(results, "quality_metrics",
                      [overall_completeness |->
                          Get(calculate_completeness_except(Body("calculate_completeness")),
                              "overall_completeness", I(0))])
    /\ UNCHANGED <<insights, recommendations, regens, df>>

\* 'issues': identify_data_quality_issues()
DeepIssues ==
    /\ ret.op = "calculate_completeness"
    /\ ret' = [op |-> "identify_data_quality_issues",
               value |-> identify_data_quality_issues_except(Body("identify_data_quality_issues"))]
    /\ results' = Put(results, "quality_metrics",
                      Put(results.quality_metrics, "issues",
                          identify_data_quality_issues_except(Body("identify_data_quality_issues"))))
    /\ UNCHANGED <<insights, recommendations, regens, df>>

DeepBiometric ==
    /\ ret.op = "identify_data_quality_issues"
    /\ ret' = [op |-> "analyze_biometric_coverage",
               value |-> analyze_biometric_coverage_except(Body("analyze_biometric_coverage"))]
    /\ results' = Put(results, "biometric_metrics",
                      analyze_biometric_coverage_except(Body("analyze_biometric_coverage")))
    /\ UNCHANGED <<insights, recommendations, regens, df>>

DeepUpdate ==
    /\ ret.op = "analyze_biometric_coverage"
    /\ ret' = [op |-> "calculate_update_ratios",
               value |-> calculate_update_ratios_except(Body("calculate_update_ratios"))]
    /\ results' = Put(results, "update_metrics",
                      calculate_update_ratios_except(Body("calculate_update_ratios")))
    /\ UNCHANGED <<insights, recommendations, regens, df>>

DeepTrend ==
    /\ ret.op = "calculate_update_ratios"
    /\ ret' = [op |-> "get_volatility_metrics",
               value |-> get_volatility_metrics_except(Body("get_volatility_metrics"))]
    /\ results' = Put(results, "trend_metrics",
                      get_volatility_metrics_except(Body("get_volatility_metrics")))
    /\ UNCHANGED <<insights, recommendations, regens, df>>

\* InsightGenerator(analysis_results): its constructor generates everything
DeepInsights ==
    /\ ret.op = "get_volatility_metrics"
    /\ insights' = generate_all_insights(<<>>, results)
    /\ recommendations' = generate_recommendations(generate_all_insights(<<>>, results))
    /\ ret' = [op |-> "InsightGenerator", value |-> EmptyMap]
    /\ UNCHANGED <<results, regens, df>>

NextFamilies ==
    \/ DeepTemporal \/ DeepGeographic \/ DeepDemographic \/ DeepCompleteness
    \/ DeepIssues \/ DeepBiometric \/ DeepUpdate \/ DeepTrend \/ DeepInsights

SpecFamilies == InitFamilies /\ [][NextFamilies]_vars

-----------------------------------------------------------------------------
(* The loaders of aadhaarDashboard.  The data directory is a flag for its  *)
(* existence and the sequence of its files in sorted name order; a file is *)
(* its name, whether read_csv can read it, and the frame it holds.  A      *)
(* loaded frame is its column names and its rows, a row a function from    *)
(* the column names to the cells; text cells are strings, numeric cells    *)
(* are numbers with NaN.                                                   *)

\* glob(data_dir / '*<kind>*.csv'), sorted: nothing without the directory
EndsWith(text, suffix) ==
    /\ Len(text) >= Len(suffix)
    /\ SubSeq(text, Len(text) - Len(suffix) + 1, Len(text)) = suffix
GlobSorted(dir, kind) ==
    IF dir.dir_exists
    THEN SelectSeq(dir.files, LAMBDA f : Contains(f.name, kind) /\ EndsWith(f.name, ".csv"))
    ELSE <<>>

\* the missing cell pd.concat fills in, by the column's type
TextColumns == {"date", "state"}
MissingCell(col) == IF col \in TextColumns THEN "NaN" ELSE NaN

\* the columns of pd.concat: those of the first frame, then the new ones of
\* each later frame
RECURSIVE ConcatColumns(_)
ConcatColumns(frames) ==
    IF frames = <<>> THEN <<>>
    ELSE LET before == ConcatColumns(SubSeq(frames, 1, Len(frames) - 1))
             last == frames[Len(frames)].columns
         IN  before \o SelectSeq(last, LAMBDA c : \A i \in 1..Len(before) : before[i] # c)

RECURSIVE ConcatRows(_)
ConcatRows(frames) ==
    IF frames = <<>> THEN <<>> ELSE Head(frames).rows \o ConcatRows(Tail(frames))

\* pd.concat(frames, ignore_index=True)
Concat(frames) ==
    LET cols == ConcatColumns(frames)
        rows == ConcatRows(frames)
    IN  [columns |-> cols,
         rows |-> [i \in 1..Len(rows) |->
                      [c \in {cols[k] : k \in 1..Len(cols)} |->
                          IF c \in DOMAIN rows[i] THEN rows[i][c] ELSE MissingCell(c)]]]

\* pd.to_datetime(cell, format='%d-%m-%Y', errors='coerce')
ToDatetime(cell) ==
    CASE cell = "01-03-2025" -> "2025-03-01"
      [] cell = "02-03-2025" -> "2025-03-02"
      [] OTHER -> "NaT"

\* if 'date' in frame.columns: frame['date'] = pd.to_datetime(...)
ProcessDate(frame) ==
    IF \E k \in 1..Len(frame.columns) : frame.columns[k] = "date"
    THEN [frame EXCEPT !.rows =
             [i \in 1..Len(frame.rows) |->
                 [frame.rows[i] EXCEPT !["date"] = ToDatetime(frame.rows[i]["date"])]]]
    ELSE frame

\* frame[col] = values: in place when the column is there, else appended
SetColumn(frame, col, values) ==
    [columns |-> IF \E k \in 1..Len(frame.columns) : frame.columns[k] = col
                 THEN frame.columns ELSE Append(frame.columns, col),
     rows |-> [i \in 1..Len(frame.rows) |->
                  [c \in DOMAIN frame.rows[i] \cup {col} |->
                      IF c = col THEN values[i] ELSE frame.rows[i][c]]]]

\* mutant: the total is computed only when the frame has none
CalculateTotal_ifabsent(frame) ==
    LET age_cols == FindColumns(frame.columns, {"age"})
    IN  IF age_cols # <<>> /\ \A k \in 1..Len(frame.columns) : frame.columns[k] # "total"
        THEN SetColumn(frame, "total",
                 [i \in 1..Len(frame.rows) |->
                     RSumSkipNa([k \in 1..Len(age_cols) |-> frame.rows[i][age_cols[k]]])])
        ELSE frame

\* age_cols = [...]; if age_cols: frame['total'] = frame[age_cols].sum(axis=1)
CalculateTotal(frame) ==
    LET age_cols == FindColumns(frame.columns, {"age"})
    IN  IF age_cols # <<>>
        THEN SetColumn(frame, "total",
                 [i \in 1..Len(frame.rows) |->
                     RSumSkipNa([k \in 1..Len(age_cols) |-> frame.rows[i][age_cols[k]]])])
        ELSE frame

\* the frames read_csv returns, in order, of the files that can be read
ReadFrames(files) ==
    LET readable == SelectSeq(files, LAMBDA f : f.readable)
    IN  [i \in 1..Len(readable) |-> readable[i].frame]

\* st.warning(f'Could not load {name}: {e}') of the files that cannot
LoadWarnings(files) ==
    LET failed == SelectSeq(files, LAMBDA f : ~f.readable)
    IN  [i \in 1..Len(failed) |-> [kind |-> "warning", file |-> failed[i].name]]

NoFrame == [columns |-> <<>>, rows |-> <<>>]

\* mutant: without a matching or readable file an empty frame is returned
load_combined_data_nocheck(dir) ==
    LET enrolment_files == GlobSorted(dir, "enrolment")
        enrolment_dfs == ReadFrames(enrolment_files)
    IN  IF ~dir.dir_exists THEN
            [is_none |-> TRUE, value |-> NoFrame,
             page |-> <<[kind |-> "error", file |-> "Data directory not found!"]>>]
        ELSE
            [is_none |-> FALSE, value |-> CalculateTotal(ProcessDate(Concat(enrolment_dfs))),
             page |-> LoadWarnings(enrolment_files)]

\* load_combined_data: the frame, or None (is_none, with no frame), and what
\* it put on the page
load_combined_data(dir) ==
    LET enrolment_files == GlobSorted(dir, "enrolment")
        enrolment_dfs == ReadFrames(enrolment_files)
    IN  IF ~dir.dir_exists THEN
            [is_none |-> TRUE, value |-> NoFrame,
             page |-> <<[kind |-> "error", file |-> "Data directory not found!"]>>]
        ELSE IF enrolment_files = <<>> THEN
            [is_none |-> TRUE, value |-> NoFrame,
             page |-> <<[kind |-> "error", file |-> "No enrolment CSV files found"]>>]
        ELSE IF enrolment_dfs = <<>> THEN
            [is_none |-> TRUE, value |-> NoFrame,
             page |-> LoadWarnings(enrolment_files)
                      \o <<[kind |-> "error", file |-> "Could not load any CSV files!"]>>]
        ELSE
            [is_none |-> FALSE, value |-> CalculateTotal(ProcessDate(Concat(enrolment_dfs))),
             page |-> LoadWarnings(enrolment_files)]

\* mutant: the optional loaders warn of the files they skip
load_optional_data_warning(dir, kind) ==
    LET files == GlobSorted(dir, kind)
        dfs == ReadFrames(files)
    IN  IF files = <<>> \/ dfs = <<>>
        THEN [is_none |-> TRUE, value |-> NoFrame, page |-> LoadWarnings(files)]
        ELSE [is_none |-> FALSE, value |-> ProcessDate(Concat(dfs)),
              page |-> LoadWarnings(files)]

\* load_biometric_data / load_demographic_data: except: pass
load_optional_data(dir, kind) ==
    LET files == GlobSorted(dir, kind)
        dfs == ReadFrames(files)
    IN  IF files = <<>> \/ dfs = <<>>
        THEN [is_none |-> TRUE, value |-> NoFrame, page |-> <<>>]
        ELSE [is_none |-> FALSE, value |-> ProcessDate(Concat(dfs)), page |-> <<>>]

load_biometric_data(dir) == load_optional_data(dir, "biometric")
load_demographic_data(dir) == load_optional_data(dir, "demographic")

-----------------------------------------------------------------------------
(* Specification SpecLoad: one render of main from its loaders on, over a  *)
(* data directory.                                                         *)

MaxEnrolmentFiles == 2

\* the frames the files of the model hold
EnrolmentFrames ==
    { [columns |-> <<"date", "state", "age_0_5", "age_5_17">>,
       rows |-> << [date |-> "01-03-2025", state |-> "A", age_0_5 |-> I(1), age_5_17 |-> I(2)],
                   [date |-> "2025-03-02", state |-> "B", age_0_5 |-> I(0), age_5_17 |-> I(4)] >>],
      [columns |-> <<"date", "state", "age_0_5", "total">>,
       rows |-> << [date |-> "02-03-2025", state |-> "A", age_0_5 |-> I(3), total |-> I(9)] >>],
      [columns |-> <<"state", "total">>,
       rows |-> << [state |-> "C", total |-> I(7)] >>] }
BiometricFrames ==
    { [columns |-> <<"date", "state", "bio_age_5_17">>,
       rows |-> << [date |-> "01-03-2025", state |-> "B", bio_age_5_17 |-> I(5)] >>] }
DemographicFrames ==
    { [columns |-> <<"date", "state", "demo_age_5_17">>,
       rows |-> << [date |-> "02-03-2025", state |-> "A", demo_age_5_17 |-> I(6)] >>] }

\* the names a directory can hold, in sorted order, and what each can hold
FileNames ==
    <<"biometric_1.csv", "demographic_1.csv">>
    \o [i \in 1..MaxEnrolmentFiles |-> "enrolment_" \o ToString(i) \o ".csv"]
    \o <<"enrolment_notes.txt">>
FramesOf(name) ==
    IF Contains(name, "biometric") THEN BiometricFrames
    ELSE IF Contains(name, "demographic") THEN DemographicFrames
    ELSE IF EndsWith(name, ".csv") THEN EnrolmentFrames
    ELSE {NoFrame}

\* a directory: for every name, no file, a file read_csv fails on, or a
\* file with a frame
Absent == [present |-> FALSE, readable |-> FALSE, frame |-> NoFrame]
FileChoices(name) ==
    {Absent, [present |-> TRUE, readable |-> FALSE, frame |-> NoFrame]}
    \cup {[present |-> TRUE, readable |-> TRUE, frame |-> f] : f \in FramesOf(name)}

RECURSIVE FilesFrom(_, _)
FilesFrom(choice, n) ==
    IF n = 0 THEN <<>>
    ELSE FilesFrom(choice, n - 1) \o
         (IF choice[n].present
          THEN <<[name |-> FileNames[n], readable |-> choice[n].readable,
                  frame |-> choice[n].frame]>>
          ELSE <<>>)

RECURSIVE Choices(_)
Choices(n) ==
    IF n = 0 THEN {<<>>}
    ELSE {Append(c, x) : c \in Choices(n - 1), x \in FileChoices(FileNames[n])}

Directories ==
    {[dir_exists |-> TRUE, files |-> FilesFrom(c, Len(FileNames))] : c \in Choices(Len(FileNames))}
    \cup {[dir_exists |-> FALSE, files |-> <<>>]}

InitLoad ==
    /\ df \in Directories
    /\ results = EmptyMap
    /\ insights = <<>>
    /\ recommendations = <<>>
    /\ ret = [op |-> "none", page |-> <<>>, sections |-> <<>>]
    /\ regens = 0

\* df = load_combined_data()
LoadCombinedData ==
    /\ ret.op = "none"
    /\ results' = Put(results, "df", [is_none |-> load_combined_data(df).is_none,
                                      value |-> load_combined_data(df).value])
    /\ ret' = [ret EXCEPT !.op = "load_combined_data",
                          !.page = @ \o load_combined_data(df).page]
    /\ UNCHANGED <<insights, recommendations, regens, df>>

\* bio_df = load_biometric_data()
LoadBiometricData ==
    /\ ret.op = "load_combined_data"
    /\ results' = Put(results, "bio_df", [is_none |-> load_biometric_data(df).is_none,
                                          value |-> load_biometric_data(df).value])
    /\ ret' = [ret EXCEPT !.op = "load_biometric_data",
                          !.page = @ \o load_biometric_data(df).page]
    /\ UNCHANGED <<insights, recommendations, regens, df>>

\* demo_df = load_demographic_data()
LoadDemographicData ==
    /\ ret.op = "load_biometric_data"
    /\ results' = Put(results, "demo_df", [is_none |-> load_demographic_data(df).is_none,
                                           value |-> load_demographic_data(df).value])
    /\ ret' = [ret EXCEPT !.op = "load_demographic_data",
                          !.page = @ \o load_demographic_data(df).page]
    /\ UNCHANGED <<insights, recommendations, regens, df>>

\* if df is None: st.stop()
Stop ==
    /\ ret.op = "load_demographic_data"
    /\ results.df.is_none
    /\ ret' = [ret EXCEPT !.op = "st.stop"]
    /\ UNCHANGED <<results, insights, recommendations, regens, df>>

\* the rest of main, section by section, under the sidebar's checkboxes
RenderDashboard ==
    /\ ret.op = "load_demographic_data"
    /\ ~results.df.is_none
    /\ \E show_age, show_anomalies, show_detailed, show_deep_analysis \in BOOLEAN :
          ret' = [ret EXCEPT
                     !.op = "rendered",
                     !.sections =
                         <<"header", "sidebar_filters", "data_filtering", "key_metrics",
                           "temporal_trends", "geographic_distribution">>
                         \o (IF show_age THEN <<"age_distribution">> ELSE <<>>)
                         \o (IF show_anomalies THEN <<"anomaly_detection">> ELSE <<>>)
                         \o (IF show_detailed THEN <<"detailed_data">> ELSE <<>>)
                         \o (IF show_deep_analysis THEN <<"deep_analysis">> ELSE <<>>)]
    /\ UNCHANGED <<results, insights, recommendations, regens, df>>

NextLoad ==
    \/ LoadCombinedData \/ LoadBiometricData \/ LoadDemographicData
    \/ Stop \/ RenderDashboard

SpecLoad == InitLoad /\ [][NextLoad]_vars

-----------------------------------------------------------------------------
(* styling.display_insight_card and the loop of main that calls it.        *)

\* the colors table of display_insight_card
CardColors ==
    [success |-> [bg |-> "#E8F5E9", border |-> "#4CAF50", text |-> "#1B5E20"],
     warning |-> [bg |-> "#FFF8E1", border |-> "#FF9933", text |-> "#F57F17"],
     error |-> [bg |-> "#FFEBEE", border |-> "#D32F2F", text |-> "#B71C1C"],
     info |-> [bg |-> "#E3F2FD", border |-> "#001F3F", text |-> "#001F3F"]]

\* display_insight_card: color = colors.get(severity, colors['info']); the
\* card is what the markdown shows
display_insight_card(title, message, action, severity) ==
    [title |-> title, message |-> message, action |-> action,
     color |-> Get(CardColors, severity, CardColors["info"])]

-----------------------------------------------------------------------------
(* Specification SpecCards: the insight cards of a render.                 *)

InitCards ==
    /\ results \in MetricMappings
    /\ insights = generate_all_insights(<<>>, results)
    /\ recommendations = generate_recommendations(insights)
    /\ ret = NoReturn
    /\ regens = 0
    /\ df = <<>>

\* for idx, insight in enumerate(insights): display_insight_card(...)
DisplayInsightCards ==
    /\ ret.op = "none"
    /\ ret' = [op |-> "display_insight_card",
               value |-> [i \in 1..Len(insights) |->
                             display_insight_card(Get(insights[i], "title", "Insight"),
                                                  Get(insights[i], "message", ""),
                                                  Get(insights[i], "action", ""),
                                                  Get(insights[i], "severity", "info"))]]
    /\ UNCHANGED <<results, insights, recommendations, regens, df>>

NextCards == DisplayInsightCards

SpecCards == InitCards /\ [][NextCards]_vars

-----------------------------------------------------------------------------
(* The remaining calculators of the deep analysis, on a frame whose rows   *)
(* are records of integer cells keyed by column name.                      *)

\* select_dtypes(include=[np.number]).columns: the columns that are neither
\* dates nor text
NumericColumns(frame) == SelectSeq(frame.columns, LAMBDA c : c \notin TextColumns)

\* df.duplicated().sum(): the rows equal to an earlier row
DuplicatedCount(rows) ==
    Cardinality({i \in 1..Len(rows) : \E j \in 1..(i - 1) : rows[j] = rows[i]})

\* (numeric.sum(axis=1) == 0).sum()
ZeroSumCount(frame) ==
    LET cols == NumericColumns(frame)
    IN  Cardinality({i \in 1..Len(frame.rows) :
            IntSum([k \in 1..Len(cols) |-> frame.rows[i][cols[k]]]) = 0})

\* the values of one column outside the 1.5 IQR fences
OutlierCount(values) ==
    LET Q1 == Quantile(values, 1, 4)
        Q3 == Quantile(values, 3, 4)
        IQR == RSub(Q3, Q1)
        low == RSub(Q1, RMul(R(3, 2), IQR))
        high == RAdd(Q3, RMul(R(3, 2), IQR))
    IN  Cardinality({i \in 1..Len(values) :
            RLt(I(values[i]), low) \/ RGt(I(values[i]), high)})

\* mutant: a row outside the fences of several columns is counted once
identify_data_quality_issues_dedup(frame) ==
    LET cols == NumericColumns(frame)
        duplicate_records == DuplicatedCount(frame.rows)
        zero_enrollment_records == ZeroSumCount(frame)
        outside(i, col) ==
            LET values == Column(frame.rows, col)
                Q1 == Quantile(values, 1, 4)
                Q3 == Quantile(values, 3, 4)
                IQR == RSub(Q3, Q1)
            IN  \/ RLt(I(values[i]), RSub(Q1, RMul(R(3, 2), IQR)))
                \/ RGt(I(values[i]), RAdd(Q3, RMul(R(3, 2), IQR)))
        outlier_count ==
            Cardinality({i \in 1..Len(frame.rows) :
                            \E k \in 1..Len(cols) : outside(i, cols[k])})
    IN  [duplicate_records |-> duplicate_records,
         zero_enrollment_records |-> zero_enrollment_records,
         outlier_records |-> outlier_count,
         null_percentage |->
             RMul(RDiv(I(0), I(Len(frame.rows) * Len(frame.columns))), I(100)),
         total_issues |-> duplicate_records + zero_enrollment_records + outlier_count]

\* identify_data_quality_issues on a frame without missing cells; the null
\* share of a frame without cells is 0 / 0
identify_data_quality_issues(frame) ==
    LET cols == NumericColumns(frame)
        duplicate_records == DuplicatedCount(frame.rows)
        zero_enrollment_records == ZeroSumCount(frame)
        outlier_count ==
            IntSum([k \in 1..Len(cols) |-> OutlierCount(Column(frame.rows, cols[k]))])
    IN  [duplicate_records |-> duplicate_records,
         zero_enrollment_records |-> zero_enrollment_records,
         outlier_records |-> outlier_count,
         null_percentage |->
             RMul(RDiv(I(0), I(Len(frame.rows) * Len(frame.columns))), I(100)),
         total_issues |-> duplicate_records + zero_enrollment_records + outlier_count]

\* df.count() and df.shape of a frame without missing cells
PresentCells(frame) ==
    [columns |-> frame.columns,
     rows |-> [i \in 1..Len(frame.rows) |-> [c \in 1..Len(frame.columns) |-> "1"]]]

\* analyze_biometric_coverage
analyze_biometric_coverage(frame) ==
    LET bio_age_cols == Bio_age_cols(frame.columns)
    IN  IF bio_age_cols = <<>> THEN EmptyMap
        ELSE [col \in {bio_age_cols[k] : k \in 1..Len(bio_age_cols)} |->
                 LET sum == IntSum(Column(frame.rows, col))
                 IN  [count |-> sum,
                      percentage |-> RMul(RDiv(I(sum), I(Len(frame.rows))), I(100))]]

\* calculate_update_ratios; a dataset that was not loaded counts 0 rows
calculate_update_ratios(enrol_df, bio_df, demo_df) ==
    LET enrol_count == Len(enrol_df.rows)
        bio_count == IF ~bio_df.is_none THEN Len(bio_df.value.rows) ELSE 0
        demo_count == IF ~demo_df.is_none THEN Len(demo_df.value.rows) ELSE 0
        ratio(count) == IF enrol_count > 0 THEN RDiv(I(count), I(enrol_count)) ELSE I(0)
        percentage(count) ==
            IF enrol_count > 0 THEN RMul(RDiv(I(count), I(enrol_count)), I(100)) ELSE I(0)
    IN  [total_enrollments |-> enrol_count,
         total_biometric_updates |-> bio_count,
         total_demographic_updates |-> demo_count,
         biometric_to_enrol_ratio |-> ratio(bio_count),
         demographic_to_enrol_ratio |-> ratio(demo_count),
         biometric_update_percentage |-> percentage(bio_count),
         demographic_update_percentage |-> percentage(demo_count)]

\* Series.std() of rationals, kept as the variance under the root: missing
\* values are skipped, fewer than two values or a value that is not finite
\* give NaN
RStd(values) ==
    LET kept == SelectSeq(values, LAMBDA v : ~IsNaN(v))
        n == Len(kept)
        mean == RDiv(RSum(kept), I(n))
        devs == [i \in 1..n |-> RMul(RSub(kept[i], mean), RSub(kept[i], mean))]
    IN  [sqrt |-> IF n < 2 \/ \E i \in 1..n : kept[i][2] = 0 THEN NaN
                  ELSE RDiv(RSum(devs), I(n - 1))]

\* get_volatility_metrics: cv = std / mean, and cv > q exactly when
\* cv * cv > q * q
get_volatility_metrics(frame) ==
    IF \/ Trend_find_date_column(frame.columns) = None
       \/ Trend_find_enrollment_column(frame.columns) = None
    THEN EmptyMap
    ELSE
    LET daily_data == DailyData(frame.rows)
        totals == Column(daily_data, "total")
        growth == [k \in 1..Len(totals) |-> RDiv(PctChange(totals)[k], I(100))]
        volatility == RStd(growth)
        mean_daily == RDiv(I(IntSum(totals)), I(Len(totals)))
        cv == IF RGt(mean_daily, I(0))
              THEN [sqrt |-> RDiv(SampleStd(totals).sqrt, RMul(mean_daily, mean_daily))]
              ELSE [sqrt |-> I(0)]
    IN  [volatility_std |-> volatility,
         coefficient_of_variation |-> cv,
         volatility_level |-> IF RGt(cv.sqrt, R(1, 4)) THEN "High"
                              ELSE IF RGt(cv.sqrt, R(1, 25)) THEN "Medium"
                              ELSE "Low"]

-----------------------------------------------------------------------------
(* Specification SpecRender: one run of main on loaded datasets: the       *)
(* sidebar selections filter the enrolment data, then the deep analysis    *)
(* compiles the metrics of every family and generates the insights.        *)

\* mutant: the end date is excluded
filter_data_openend(frame, selected_states, start_date, end_date) ==
    LET has(col) == \E k \in 1..Len(frame.columns) : frame.columns[k] = col
        by_state == IF has("state") /\ selected_states # {}
                    THEN SelectSeq(frame.rows, LAMBDA r : r.state \in selected_states)
                    ELSE frame.rows
        by_date == IF has("date")
                   THEN SelectSeq(by_state,
                                  LAMBDA r : r.date >= start_date /\ r.date < end_date)
                   ELSE by_state
    IN  [columns |-> frame.columns, rows |-> by_date]

\* the state filter, then the date-range filter; the date inputs exist
\* exactly when the data has a date column
filter_data(frame, selected_states, start_date, end_date) ==
    LET has(col) == \E k \in 1..Len(frame.columns) : frame.columns[k] = col
        by_state == IF has("state") /\ selected_states # {}
                    THEN SelectSeq(frame.rows, LAMBDA r : r.state \in selected_states)
                    ELSE frame.rows
        by_date == IF has("date")
                   THEN SelectSeq(by_state,
                                  LAMBDA r : r.date >= start_date /\ r.date <= end_date)
                   ELSE by_state
    IN  [columns |-> frame.columns, rows |-> by_date]

\* the analysis_results literal of the deep analysis; the row totals of the
\* datasets are positive, so that idxmax has a largest share to return
analysis_results(filtered_df, bio_df, demo_df) ==
    [temporal_metrics |-> growth_rate_of(filtered_df),
     geographic_metrics |-> calculate_concentration(filtered_df.rows, FALSE),
     demographic_metrics |-> analyze_age_distribution(filtered_df.rows),
     quality_metrics |->
         [overall_completeness |->
              Get(calculate_completeness(PresentCells(filtered_df)),
                  "overall_completeness", I(0)),
          issues |-> identify_data_quality_issues(filtered_df)],
     biometric_metrics |->
         analyze_biometric_coverage(IF ~bio_df.is_none THEN bio_df.value
                                    ELSE filtered_df),
     update_metrics |-> calculate_update_ratios(filtered_df, bio_df, demo_df),
     trend_metrics |-> get_volatility_metrics(filtered_df)]

MaxRenderRows == 2
RenderDays == {1, 2}
RenderStates == {"A", "B"}
RenderColumns == <<"date", "state", "age_0_5", "age_5_17", "age_18_greater", "total">>

\* an enrolment row as load_combined_data leaves it: total is the age sum
RenderRow(d, s) ==
    [date |-> d, state |-> s, age_0_5 |-> d, age_5_17 |-> 1, age_18_greater |-> 0,
     total |-> d + 1]

RenderRows == {RenderRow(d, s) : d \in RenderDays, s \in RenderStates}

EnrolmentDatasets ==
    {[columns |-> RenderColumns, rows |-> rows] :
        rows \in UNION {[1..n -> RenderRows] : n \in 0..MaxRenderRows}}

NotLoaded == [is_none |-> TRUE, value |-> NoFrame]

\* a biometric dataset of one row, under the column name of the data files
\* and under a name the biometric analyzer resolves
BiometricDatasets ==
    {NotLoaded}
    \cup {[is_none |-> FALSE,
           value |-> [columns |-> <<"date", "state", "bio_age_5_17">>,
                      rows |-> <<[date |-> 1, state |-> s, bio_age_5_17 |-> 3]>>]] :
            s \in RenderStates}
    \cup {[is_none |-> FALSE,
           value |-> [columns |-> <<"date", "state", "bioage_5_17">>,
                      rows |-> <<[date |-> 1, state |-> s, bioage_5_17 |-> 3]>>]] :
            s \in RenderStates}

DemographicDatasets ==
    {NotLoaded}
    \cup {[is_none |-> FALSE,
           value |-> [columns |-> <<"date", "state", "demo_age_5_17">>,
                      rows |-> <<[date |-> d, state |-> "A", demo_age_5_17 |-> 2]>>]] :
            d \in RenderDays}

\* sorted(df['state'].unique())
AvailableStates(frame) == {frame.rows[i].state : i \in 1..Len(frame.rows)}

DateRanges == {<<1, 2>>, <<1, 1>>, <<2, 2>>}

InitRender ==
    /\ \E data \in EnrolmentDatasets, bio \in BiometricDatasets,
          demo \in DemographicDatasets, range \in DateRanges, deep \in BOOLEAN :
          \E selected \in SUBSET AvailableStates(data) :
              df = [df |-> data, bio_df |-> bio, demo_df |-> demo,
                    selected_states |-> selected,
                    start_date |-> range[1], end_date |-> range[2],
                    show_deep_analysis |-> deep]
    /\ results = EmptyMap
    /\ insights = <<>>
    /\ recommendations = <<>>
    /\ ret = [op |-> "main", filtered_df |-> NoFrame]
    /\ regens = 0

FilterData ==
    /\ ret.op = "main"
    /\ ret' = [op |-> "filter",
               filtered_df |-> filter_data(df.df, df.selected_states,
                                           df.start_date, df.end_date)]
    /\ UNCHANGED <<results, insights, recommendations, regens, df>>

DeepAnalysis ==
    /\ ret.op = "filter"
    /\ df.show_deep_analysis
    /\ results' = analysis_results(ret.filtered_df, df.bio_df, df.demo_df)
    /\ insights' = generate_all_insights(<<>>, results')
    /\ recommendations' = generate_recommendations(insights')
    /\ ret' = [ret EXCEPT !.op = "deep_analysis"]
    /\ UNCHANGED <<regens, df>>

NextRender == FilterData \/ DeepAnalysis

SpecRender == InitRender /\ [][NextRender]_vars

-----------------------------------------------------------------------------
(* Specification SpecSession: a session of renders over the file-load      *)
(* cache. Frames are objects of a heap, named by their position; object 1  *)
(* is the dataset the cached load_combined_data returned, and main's df    *)
(* refers to it. The locals of a run die with the run.                     *)

\* a new object of the heap and its name
Alloc(heap, frame) == [heap |-> Append(heap, frame), id |-> Len(heap) + 1]

\* mutant: indexing drops the rows of the indexed object itself
Index_inplace(heap, id, rows) ==
    [heap |-> [heap EXCEPT ![id] = [columns |-> heap[id].columns, rows |-> rows]],
     id |-> id]

\* frame[mask]: boolean indexing builds a new object of the kept rows
Index(heap, id, rows) == Alloc(heap, [columns |-> heap[id].columns, rows |-> rows])

\* frame.copy()
Copy(heap, id) == Alloc(heap, heap[id])

\* frame[col] = values writes into the object itself
SetItem(heap, id, col, values) == [heap EXCEPT ![id] = SetColumn(heap[id], col, values)]

HasColumn(frame, col) == \E k \in 1..Len(frame.columns) : frame.columns[k] = col

MaxRenders == 2

InitSession ==
    /\ \E data \in EnrolmentDatasets : df = <<data>>
    /\ ret = [op |-> "loaded", df |-> 1, filtered_df |-> 1,
              selected_states |-> {}, start_date |-> 1, end_date |-> 1]
    /\ regens = 0
    /\ results = EmptyMap
    /\ insights = <<>>
    /\ recommendations = <<>>

\* a run of the script starts: the cache hands over the dataset, the sidebar
\* returns the selections
Rerun ==
    /\ ret.op \in {"loaded", "temporal"}
    /\ regens < MaxRenders
    /\ regens' = regens + 1
    /\ df' = <<df[1]>>
    /\ \E range \in DateRanges : \E selected \in SUBSET AvailableStates(df[1]) :
          ret' = [op |-> "sidebar", df |-> 1, filtered_df |-> 1,
                  selected_states |-> selected,
                  start_date |-> range[1], end_date |-> range[2]]
    /\ UNCHANGED <<results, insights, recommendations>>

\* the state filter with its copy
FilterStates ==
    /\ ret.op = "sidebar"
    /\ LET frame == df[ret.df]
           new == IF HasColumn(frame, "state") /\ ret.selected_states # {}
                  THEN LET indexed ==
                               Index(df, ret.df,
                                     SelectSeq(frame.rows,
                                               LAMBDA r : r.state \in ret.selected_states))
                       IN  Copy(indexed.heap, indexed.id)
                  ELSE Copy(df, ret.df)
       IN  /\ df' = new.heap
           /\ ret' = [ret EXCEPT !.op = "states", !.filtered_df = new.id]
    /\ UNCHANGED <<results, insights, recommendations, regens>>

\* the date-range filter
FilterDates ==
    /\ ret.op = "states"
    /\ LET frame == df[ret.filtered_df]
           new == IF HasColumn(frame, "date")
                  THEN Index(df, ret.filtered_df,
                             SelectSeq(frame.rows,
                                       LAMBDA r : /\ r.date >= ret.start_date
                                                  /\ r.date <= ret.end_date))
                  ELSE [heap |-> df, id |-> ret.filtered_df]
       IN  /\ df' = new.heap
           /\ ret' = [ret EXCEPT !.op = "dates", !.filtered_df = new.id]
    /\ UNCHANGED <<results, insights, recommendations, regens>>

\* the temporal section: the monthly trend adds year_month to filtered_df
TemporalSection ==
    /\ ret.op = "dates"
    /\ LET frame == df[ret.filtered_df]
       IN  df' = IF HasColumn(frame, "date") /\ HasColumn(frame, "total")
                 THEN SetItem(df, ret.filtered_df, "year_month",
                              [i \in 1..Len(frame.rows) |-> YearMonth(frame.rows[i].date)])
                 ELSE df
    /\ ret' = [ret EXCEPT !.op = "temporal"]
    /\ UNCHANGED <<results, insights, recommendations, regens>>

NextSession == Rerun \/ FilterStates \/ FilterDates \/ TemporalSection

SpecSession == InitSession /\ [][NextSession]_vars

-----------------------------------------------------------------------------
(* Specification SpecIssues: identify_data_quality_issues on a frame of a  *)
(* text column and two numeric columns.                                    *)

MaxIssueRows == 4
IssueColumns == <<"state", "age_0_5", "total">>
IssueCells == {0, 9}
IssueFrames ==
    {[columns |-> IssueColumns, rows |-> rows] :
        rows \in UNION {[1..n -> [state : {"A"}, age_0_5 : IssueCells, total : IssueCells]] :
                            n \in 0..MaxIssueRows}}

InitIssues ==
    /\ df \in IssueFrames
    /\ results = EmptyMap
    /\ insights = <<>>
    /\ recommendations = <<>>
    /\ ret = NoReturn
    /\ regens = 0

IdentifyDataQualityIssues ==
    /\ ret.op = "none"
    /\ ret' = [op |-> "identify_data_quality_issues",
               value |-> identify_data_quality_issues(df)]
    /\ UNCHANGED <<results, insights, recommendations, regens, df>>

NextIssues == IdentifyDataQualityIssues

SpecIssues == InitIssues /\ [][NextIssues]_vars

-----------------------------------------------------------------------------
(* Specification SpecGender: generate_gender_insight on a mapping holding  *)
(* a gender distribution.                                                  *)

MaxGenders == 2
GenderNames == <<"Male", "Female", "Other">>
GenderCounts == {0, 100, 119, 120, 149, 150, 200}
GenderDistributions ==
    UNION {{[k \in 1..n |-> <<GenderNames[k], counts[k]>>] : counts \in [1..n -> GenderCounts]}
               : n \in 0..MaxGenders}

InitGender ==
    /\ \E dist \in GenderDistributions :
          results = [demographic_metrics |-> [gender_distribution |-> dist]]
    /\ insights = <<>>
    /\ recommendations = <<>>
    /\ ret = NoReturn
    /\ regens = 0
    /\ df = <<>>

GenerateGenderInsight ==
    /\ ret.op = "none"
    /\ insights' = <<generate_gender_insight(results)>>
    /\ ret' = [op |-> "generate_gender_insight"]
    /\ UNCHANGED <<results, recommendations, regens, df>>

NextGender == GenerateGenderInsight

SpecGender == InitGender /\ [][NextGender]_vars

-----------------------------------------------------------------------------
(* Properties of the InsightGenerator (specification Spec).                *)

Severities == {"positive", "info", "warning", "critical"}
InsightFields == {"title", "message", "details", "action", "severity", "type"}

\* positions in the insight list holding an insight of one of the severities
IdxOf(sevs) == {i \in 1..Len(insights) : Truthy(insights[i]) /\ insights[i].severity \in sevs}

\* 1-based rank of position i within the index set S
Rank(S, i) == Cardinality({j \in S : j <= i})

RecSet == {recommendations[k] : k \in 1..Len(recommendations)}

\* C1: the recommendation list holds the actions of the critical/warning
\* insights first, in insight order, then the actions of the positive
\* insights, in insight order, and nothing else; the action of an
\* info-severity insight is never in it.
C1_RecommendationOrder ==
    LET C == IdxOf({"critical", "warning"})
        P == IdxOf({"positive"})
        n == Len(recommendations)
    IN  /\ (C \cup P # {}) =>
            /\ n <= Cardinality(C) + Cardinality(P)
            /\ \A i \in C : Rank(C, i) <= n =>
                   recommendations[Rank(C, i)] = insights[i].action
            /\ \A i \in P : Cardinality(C) + Rank(P, i) <= n =>
                   recommendations[Cardinality(C) + Rank(P, i)] = insights[i].action
        /\ \A i \in IdxOf({"info"}) : insights[i].action \notin RecSet

\* a positive insight precedes a corrective one in the insight list, both
\* actions are recommended, and an info insight is present
C1_Witness ==
    /\ IdxOf({"info"}) # {}
    /\ \E j \in IdxOf({"positive"}), i \in IdxOf({"critical", "warning"}) :
          /\ j < i
          /\ insights[i].action \in RecSet
          /\ insights[j].action \in RecSet

\* C2: at most 10 recommendations; the list is the four literal defaults
\* exactly when no insight is critical, warning or positive.
C2_LimitAndDefaults ==
    /\ Len(recommendations) <= 10
    /\ (recommendations = DefaultRecommendations)
         <=> (IdxOf({"critical", "warning", "positive"}) = {})

\* a full insight list of info insights only, answered with the defaults
C2_Witness ==
    /\ Len(insights) >= 11
    /\ IdxOf({"info"}) = 1..Len(insights)
    /\ recommendations = DefaultRecommendations

\* C3: the banner returned by get_summary_text is CRITICAL/red when some
\* insight is critical, else CAUTION/amber when some insight is a warning,
\* else ON TRACK/green, whatever the positive and info counts are.
C3_BannerPriority ==
    ret.op = "get_summary_text" =>
        LET hasCritical == IdxOf({"critical"}) # {}
            hasWarning  == IdxOf({"warning"}) # {}
            banner == <<ret.value.status, ret.value.color>>
        IN  /\ hasCritical =>
                banner = <<" CRITICAL - Immediate Action Required", "#ef4444">>
            /\ (~hasCritical /\ hasWarning) =>
                banner = <<" CAUTION - Review Needed", "#f59e0b">>
            /\ (~hasCritical /\ ~hasWarning) =>
                banner = <<" ON TRACK - Healthy Performance", "#10b981">>

\* the CRITICAL banner was returned with more warnings than critical insights
C3_Witness ==
    /\ ret.op = "get_summary_text"
    /\ ret.value.color = "#ef4444"
    /\ Cardinality(IdxOf({"warning"})) > Cardinality(IdxOf({"critical"}))
    /\ IdxOf({"positive"}) # {}

\* the generator an insight record comes from, by its title, as its position
\* in the documented priority order
Slot(i) ==
    LET t == i.title
    IN  CASE t \in {"EXCELLENT DATA QUALITY - Premium Standard",
                    "GOOD DATA QUALITY - Reliable",
                    "MODERATE QUALITY - Needs Attention",
                    "POOR DATA QUALITY - Critical"} -> 1
          [] t \in {"EXCEPTIONAL GROWTH - Accelerating Fast", "STRONG GROWTH - On Track",
                    "STEADY GROWTH - Healthy Progress",
                    "SLOW GROWTH - Needs Attention"} -> 2
          [] t \in {"HIGH CONCENTRATION - Unbalanced Distribution",
                    "MODERATE CONCENTRATION - Room for Growth",
                    "BALANCED DISTRIBUTION - Well Spread"} -> 3
          [] t \in {"EXCELLENT DIVERSITY - All Groups Well Represented",
                    "GOOD DIVERSITY - Balanced Participation",
                    "MODERATE SKEW - Some Groups Underrepresented",
                    "CRITICAL SKEW - Severe Demographic Imbalance"} -> 4
          [] t = "PEAK ACTIVITY - The Busiest Day" -> 5
          [] t = "WEEKLY PATTERNS - Predictability Check" -> 6
          [] t = "GEOGRAPHIC COVERAGE - State Distribution" -> 7
          [] t = "GENDER BALANCE - Equality Check" -> 8
          [] t = "DUPLICATE RECORDS - Data Integrity Check" -> 9
          [] t = "BIOMETRIC COVERAGE - Fingerprint Enrollment" -> 10
          [] t = "UPDATE FREQUENCY - System Activity" -> 11
          [] t = "ENROLLMENT VOLATILITY - Stability Check" -> 12
          [] t = "SYSTEM CAPACITY - Load Analysis" -> 13
          [] OTHER -> 0

HasGenderData ==
    Get(Get(results, "demographic_metrics", EmptyMap), "gender_distribution", <<>>) # <<>>
HasBiometricData == Truthy(Get(results, "biometric_metrics", EmptyMap))

\* C4: right after construction the insight list holds no empty record, its
\* records are in the fixed generator order (quality, temporal, geographic,
\* demographic, peak, weekly, coverage, gender, duplicates, biometric,
\* update, volatility, capacity), each is what its generator returns, and
\* only the gender and the biometric record are missing, each exactly when
\* its data is.
C4_FixedOrder ==
    regens = 0 =>
        LET made  == GeneratorResults(results)
            slots == [i \in 1..Len(insights) |->
                         IF Truthy(insights[i]) THEN Slot(insights[i]) ELSE 0]
        IN  /\ \A i \in 1..Len(insights) :
                  /\ Truthy(insights[i])
                  /\ slots[i] \in 1..13
                  /\ insights[i] = made[slots[i]]
                  /\ i > 1 => slots[i - 1] < slots[i]
            /\ {slots[i] : i \in 1..Len(insights)}
                   = (1..13) \ ((IF HasGenderData THEN {} ELSE {8})
                                \cup (IF HasBiometricData THEN {} ELSE {10}))

\* constructed from a mapping with neither gender nor biometric data: eleven
\* insights, duplicates directly after state coverage
C4_Witness ==
    /\ regens = 0
    /\ ~HasGenderData /\ ~HasBiometricData
    /\ Len(insights) = 11
    /\ Slot(insights[7]) = 7 /\ Slot(insights[8]) = 9 /\ Slot(insights[9]) = 11

\* C5: to_json_safe returns the whole insight list, the recommendation list
\* and a summary whose total is the number of insights and whose four
\* severity counts are the numbers of insights of each severity; the four
\* counts add up to the total.
C5_JsonSummary ==
    ret.op = "to_json_safe" =>
        LET s == ret.value.summary
        IN  /\ ret.value.insights = insights
            /\ ret.value.recommendations = recommendations
            /\ s.total_insights = Len(insights)
            /\ s.critical = Cardinality(IdxOf({"critical"}))
            /\ s.warning = Cardinality(IdxOf({"warning"}))
            /\ s.positive = Cardinality(IdxOf({"positive"}))
            /\ s.info = Cardinality(IdxOf({"info"}))
            /\ s.critical + s.warning + s.positive + s.info = s.total_insights

\* an export whose four counts are all non-zero
C5_Witness ==
    /\ ret.op = "to_json_safe"
    /\ ret.value.summary.critical > 0 /\ ret.value.summary.warning > 0
    /\ ret.value.summary.positive > 0 /\ ret.value.summary.info > 0
    /\ ret.value.summary.total_insights >= 11

\* C6: every record of the insight list has the six fields title, message,
\* details, action, severity, type, and a severity among positive, info,
\* warning, critical.
C6_RecordShape ==
    \A i \in 1..Len(insights) :
        /\ DOMAIN insights[i] = InsightFields
        /\ insights[i].severity \in Severities

\* a list built from a mapping with empty families and an unknown
\* volatility level
C6_Witness ==
    /\ results # EmptyMap
    /\ results.trend_metrics = [volatility_level |-> "Extreme"]
    /\ results.quality_metrics = EmptyMap
    /\ results.biometric_metrics = EmptyMap
    /\ \E i \in 1..Len(insights) :
          /\ insights[i].title = "ENROLLMENT VOLATILITY - Stability Check"
          /\ insights[i].severity = "info"

-----------------------------------------------------------------------------
(* Properties of calculate_concentration (specification SpecGeo).          *)

\* the states of the dataset and their totals, read off the rows directly
DfStates == {df[i].state : i \in 1..Len(df)}
RECURSIVE StateTotalUpTo(_, _)
StateTotalUpTo(name, n) ==
    IF n = 0 THEN 0
    ELSE StateTotalUpTo(name, n - 1) + (IF df[n].state = name THEN df[n].total ELSE 0)
StateTotal(name) == StateTotalUpTo(name, Len(df))
GrandTotal == IntSum([i \in 1..Len(df) |-> df[i].total])

RECURSIVE SquaresOver(_)
SquaresOver(S) ==
    IF S = {} THEN 0
    ELSE LET name == CHOOSE x \in S : TRUE
         IN  StateTotal(name) * StateTotal(name) + SquaresOver(S \ {name})

\* sum of squared percentage shares, as an exact fraction
ExactHHI == R(10000 * SquaresOver(DfStates), GrandTotal * GrandTotal)

GeoMetrics == results.geographic_metrics

HighMessage(name, pct) ==
    name \o " dominates with " \o pct \o
    "% of all enrollments. The enrollment is heavily concentrated in one region. This means most of the users are from a specific area."
ModerateMessage(name, pct) ==
    name \o " leads with " \o pct \o
    "% of enrollments. The distribution is somewhat unbalanced but manageable. There's good opportunity for geographic expansion."
LowMessage(name, pct) ==
    "Enrollments are well-distributed across regions. Top state (" \o name \o
    ") has only " \o pct \o "%. This excellent geographic diversity reduces regional risk."

\* C7: with a nonzero grand total the insight is the High band exactly when
\* the sum of squared percentage shares exceeds 2500, the Moderate band
\* when it exceeds 2000 but not 2500, the Low band otherwise; the
\* calculator's concentration_level names the same band; and the message
\* names a state of largest share with its percentage to one decimal.
C7_ConcentrationBands ==
    (ret.op = "generate_geographic_insight" /\ GrandTotal # 0) =>
        LET band == IF RGt(ExactHHI, I(2500)) THEN "High"
                    ELSE IF RGt(ExactHHI, I(2000)) THEN "Moderate"
                    ELSE "Low"
            title == [High |-> "HIGH CONCENTRATION - Unbalanced Distribution",
                      Moderate |-> "MODERATE CONCENTRATION - Room for Growth",
                      Low |-> "BALANCED DISTRIBUTION - Well Spread"]
            msg(name, pct) == IF band = "High" THEN HighMessage(name, pct)
                              ELSE IF band = "Moderate" THEN ModerateMessage(name, pct)
                              ELSE LowMessage(name, pct)
        IN  /\ GeoMetrics.herfindahl_index = ExactHHI
            /\ GeoMetrics.concentration_level = band
            /\ insights[1].title = title[band]
            /\ \E name \in DfStates :
                  /\ \A other \in DfStates : StateTotal(other) <= StateTotal(name)
                  /\ insights[1].message =
                         msg(name, FmtF(R(100 * StateTotal(name), GrandTotal), 1))

\* the documented example: totals 60/30/10 for A/B/C (here 6/3/1)
C7_Witness ==
    /\ ret.op = "generate_geographic_insight"
    /\ DfStates = {"A", "B", "C"}
    /\ StateTotal("A") = 6 /\ StateTotal("B") = 3 /\ StateTotal("C") = 1
    /\ GeoMetrics.herfindahl_index = I(4600)
    /\ GeoMetrics.concentration_level = "High"
    /\ insights[1].message = HighMessage("A", "60.0")

\* df with rows i and i+1 exchanged
SwapRows(rows, i) ==
    [k \in 1..Len(rows) |-> IF k = i THEN rows[i + 1]
                            ELSE IF k = i + 1 THEN rows[i] ELSE rows[k]]

Reversed(rows) == [k \in 1..Len(rows) |-> rows[Len(rows) + 1 - k]]

\* the index calculate_concentration returns for the rows in another order
ReturnedHHI(rows) == HerfindahlIndex(Shares(rows))

HHIOrderAndRange ==
    Truthy(GeoMetrics) =>
        /\ \A i \in 1..(Len(df) - 1) :
               ReturnedHHI(SwapRows(df, i)) = GeoMetrics.herfindahl_index
        /\ ReturnedHHI(Reversed(df)) = GeoMetrics.herfindahl_index
        /\ RGe(GeoMetrics.herfindahl_index, I(0))
        /\ RGe(I(10000), GeoMetrics.herfindahl_index)

\* C9 as claimed: the returned index is the same for every row order, lies
\* in [0, 10000], and is exactly 10000 for every single-state dataset.
C9_Original ==
    ret.op = "calculate_concentration" =>
        /\ HHIOrderAndRange
        /\ Cardinality(DfStates) = 1 =>
              /\ Truthy(GeoMetrics)
              /\ GeoMetrics.herfindahl_index = I(10000)

\* C9 amended: the returned index is the same for every row order, lies in
\* [0, 10000], and is exactly 10000 for every single-state dataset whose
\* grand total is not zero.
C9_HHIInvariance ==
    ret.op = "calculate_concentration" =>
        /\ HHIOrderAndRange
        /\ (Cardinality(DfStates) = 1 /\ GrandTotal # 0) =>
              /\ Truthy(GeoMetrics)
              /\ GeoMetrics.herfindahl_index = I(10000)

\* a single-state dataset of several unequal rows, and index 10000
C9_Witness ==
    /\ ret.op = "calculate_concentration"
    /\ Len(df) = 3
    /\ DfStates = {"B"}
    /\ df[1].total # df[2].total
    /\ GeoMetrics.herfindahl_index = I(10000)

-----------------------------------------------------------------------------
(* Properties of calculate_growth_rate (specification SpecTemporal).       *)

\* the distinct days of the dataset and the total of each, off the rows
DfDays == {df[i].date : i \in 1..Len(df)}
DayTotal(d) == IntSum([i \in 1..Len(df) |-> IF df[i].date = d THEN df[i].total ELSE 0])
PrevDay(d) == CHOOSE p \in DfDays : p < d /\ \A q \in DfDays : q < d => q <= p

\* growth of day d over the day before it, in percent
DayGrowth(d) == RMul(RSub(RDiv(I(DayTotal(d)), I(DayTotal(PrevDay(d)))), I(1)), I(100))

\* the last ten days of the series, without its very first day
TrailingDays ==
    {d \in DfDays : /\ Cardinality({e \in DfDays : e > d}) < 10
                    /\ \E p \in DfDays : p < d}

\* mean growth of the trailing ten periods (NaN when there is none)
TrailingMean ==
    LET defined == {d \in TrailingDays : ~IsNaN(DayGrowth(d))}
        growthOf == [d \in defined |-> DayGrowth(d)]
    IN  IF defined = {} THEN NaN
        ELSE RDiv(RSumOver(growthOf, defined), I(Cardinality(defined)))

\* C8: trend_direction is "upward" when the mean growth of the trailing ten
\* periods is strictly above 5, "downward" when it is strictly below -5,
\* and "stable" otherwise (so at exactly 5 and at exactly -5).
C8_TrendThresholds ==
    ret.op = "calculate_growth_rate" =>
        results.temporal_metrics.trend_direction =
            (IF RGt(TrailingMean, I(5)) THEN "upward"
             ELSE IF RLt(TrailingMean, I(-5)) THEN "downward"
             ELSE "stable")

\* twelve or more periods whose trailing ten have a mean growth of exactly
\* 5, classified stable, while the mean over all periods is another value
C8_Witness ==
    /\ ret.op = "calculate_growth_rate"
    /\ Cardinality(DfDays) >= 12
    /\ TrailingMean = I(5)
    /\ results.temporal_metrics.avg_growth_rate # I(5)
    /\ results.temporal_metrics.trend_direction = "stable"

-----------------------------------------------------------------------------
(* Properties of analyze_age_distribution (specification SpecDemo).        *)

\* the grand total over every age cell of the dataset, off the rows
AgeGrandTotal ==
    IntSum([i \in 1..Len(df) |->
               df[i].age_0_5 + df[i].age_5_17 + df[i].age_18_greater])

\* the shares the calculator returned, and their sum
AgeShares == results.demographic_metrics.age_groups
AgeShareSum ==
    RAdd(AgeShares["age_0_5"], RAdd(AgeShares["age_5_17"], AgeShares["age_18_greater"]))

\* C10 as stated: the shares sum to 100 whenever the grand total is not
\* zero, and every share is 0 when the grand total is zero.
C10_Original ==
    ret.op = "analyze_age_distribution" =>
        /\ AgeGrandTotal # 0 => AgeShareSum = I(100)
        /\ AgeGrandTotal = 0 => \A c \in DOMAIN AgeShares : AgeShares[c] = I(0)

\* C10 (amended): the per-bucket percentage shares sum to 100 whenever the
\* grand total is positive, and every share is 0 (not NaN) when the grand
\* total is zero or negative.
C10_AgeShares ==
    ret.op = "analyze_age_distribution" =>
        /\ DOMAIN AgeShares = AgeColSet
        /\ AgeGrandTotal > 0 => AgeShareSum = I(100)
        /\ AgeGrandTotal <= 0 => \A c \in AgeColSet : AgeShares[c] = I(0)

\* a two-row dataset with a positive grand total spread over two buckets,
\* whose shares are not whole numbers
C10_Witness ==
    /\ ret.op = "analyze_age_distribution"
    /\ Len(df) = 2
    /\ AgeGrandTotal = 3
    /\ \E c \in AgeColSet : AgeShares[c] = R(200, 3)
    /\ AgeShareSum = I(100)

\* the total of one age bucket, off the rows
BucketTotal(c) == IntSum([i \in 1..Len(df) |-> df[i][c]])

\* the squared fractional share of a bucket
BucketSquare(c) ==
    RMul(RDiv(I(BucketTotal(c)), I(AgeGrandTotal)), RDiv(I(BucketTotal(c)), I(AgeGrandTotal)))
SimpsonIndex ==
    RSub(I(1), RAdd(BucketSquare("age_0_5"),
                    RAdd(BucketSquare("age_5_17"), BucketSquare("age_18_greater"))))

ReturnedDiversity == results.demographic_metrics.age_diversity_index
EqualBuckets == \A c, d \in AgeColSet : BucketTotal(c) = BucketTotal(d)

\* C11 as stated: the index is 1 minus the sum of the squared fractional
\* shares, lies in [0, 1) for every dataset, and is (k-1)/k when the k
\* buckets have equal totals.
C11_Original ==
    ret.op = "analyze_age_distribution" =>
        /\ AgeGrandTotal # 0 => ReturnedDiversity = SimpsonIndex
        /\ RGe(ReturnedDiversity, I(0)) /\ RLt(ReturnedDiversity, I(1))
        /\ EqualBuckets => ReturnedDiversity = R(Len(AgeCols) - 1, Len(AgeCols))

\* C11 (amended): the index is 1 minus the sum of the squared fractional
\* shares when the grand total is positive and 0 otherwise; it lies in
\* [0, 1) when no bucket total is negative; it is (k-1)/k when the k buckets
\* have equal positive totals.
C11_DiversityIndex ==
    ret.op = "analyze_age_distribution" =>
        /\ AgeGrandTotal > 0 => ReturnedDiversity = SimpsonIndex
        /\ AgeGrandTotal <= 0 => ReturnedDiversity = I(0)
        /\ (\A c \in AgeColSet : BucketTotal(c) >= 0) =>
               RGe(ReturnedDiversity, I(0)) /\ RLt(ReturnedDiversity, I(1))
        /\ (EqualBuckets /\ AgeGrandTotal > 0) =>
               ReturnedDiversity = R(Len(AgeCols) - 1, Len(AgeCols))

\* two rows whose three buckets come to equal positive totals
C11_Witness ==
    /\ ret.op = "analyze_age_distribution"
    /\ Len(df) = 2
    /\ EqualBuckets
    /\ AgeGrandTotal > 0
    /\ df[1] # df[2]
    /\ ReturnedDiversity = R(2, 3)

-----------------------------------------------------------------------------
(* Properties of calculate_completeness (specification SpecQuality).       *)

\* R, C and the missing cells of the frame, off its rows
FrameRows == Len(df.rows)
FrameCols == Len(df.columns)
MissingCells == {rc \in (1..FrameRows) \X (1..FrameCols) : df.rows[rc[1]][rc[2]] = NA}

\* C12: for an R-by-C dataset with cells, overall_completeness is 100 times
\* the non-missing cells over R*C: 100 when every cell is populated,
\* (R*C-1)/(R*C)*100 when exactly one is missing; null_percentage is always
\* 100 minus overall_completeness (a frame without cells gets 0 and 100).
C12_Completeness ==
    ret.op = "calculate_completeness" =>
        LET cells == FrameRows * FrameCols
            overall == ret.value.overall_completeness
        IN  /\ cells > 0 =>
                 overall = R(100 * (cells - Cardinality(MissingCells)), cells)
            /\ (cells > 0 /\ MissingCells = {}) => overall = I(100)
            /\ Cardinality(MissingCells) = 1 => overall = R((cells - 1) * 100, cells)
            /\ cells = 0 => overall = I(0)
            /\ ret.value.null_percentage = RSub(I(100), overall)
            /\ results.quality_metrics.overall_completeness = overall

\* a frame of two columns and three rows with exactly one cell missing
C12_Witness ==
    /\ ret.op = "calculate_completeness"
    /\ FrameRows = 3 /\ FrameCols = 2
    /\ Cardinality(MissingCells) = 1
    /\ ret.value.overall_completeness = R(500, 6)
    /\ ret.value.null_percentage = R(100, 6)

-----------------------------------------------------------------------------
(* Properties of the column resolvers (specification SpecColumns).         *)

\* the lowercased column names, written out
Lowered ==
    [c \in ColumnNames |->
        CASE c = "Date" -> "date"
          [] c = "State_Code" -> "state_code"
          [] OTHER -> c]

\* positions of the columns whose lowercased name holds one of the keywords
Hits(keywords) ==
    {i \in 1..Len(df.columns) :
        \E kw \in keywords : Contains(Lowered[df.columns[i]], kw)}

\* what a resolver of these keywords is to return
FirstHit(keywords) ==
    IF Hits(keywords) = {} THEN None
    ELSE df.columns[CHOOSE i \in Hits(keywords) : \A j \in Hits(keywords) : i <= j]

\* C17: each column resolver returns the first column, in column order,
\* whose lowercased name contains the role's keyword (either keyword, for
\* the temporal enrolment resolver), and None when no column matches.
C17_FirstMatchWins ==
    /\ ret.op = "AdvancedTemporalAnalysis" =>
          /\ ret.date_col = FirstHit({"date"})
          /\ ret.enrol_col = FirstHit({"total", "enrol"})
    /\ ret.op = "GeographicAnalysis" =>
          /\ ret.state_col = FirstHit({"state"})
          /\ ret.district_col = FirstHit({"district"})
          /\ ret.enrol_col = FirstHit({"total"})
    /\ ret.op = "DemographicAnalysis" => ret.gender_col = FirstHit({"gender"})
    /\ ret.op = "TrendAnalysis" =>
          /\ ret.date_col = FirstHit({"date"})
          /\ ret.enrol_col = FirstHit({"total"})

\* two different columns match the date keyword and the earlier one, in
\* mixed case, is returned
C17_Witness ==
    /\ ret.op = "AdvancedTemporalAnalysis"
    /\ df.columns = <<"pincode", "Date", "update_date">>
    /\ ret.date_col = "Date"
    /\ ret.enrol_col = None

-----------------------------------------------------------------------------
(* Properties of the temporal computations (specification SpecPeriods).    *)

TemporalOps ==
    {"calculate_growth_rate", "detect_anomalous_days",
     "get_weekly_statistics", "get_monthly_trends"}

\* the frame lacks a column named for the date or one named for the total
FrameUnresolved ==
    \/ df.columns[1] \notin {"date", "Date"}
    \/ df.columns[2] \notin {"total", "enrolments"}

\* the distinct days of the frame and the sum of all its counts
FrameDays == {df.rows[i].date : i \in 1..Len(df.rows)}
FrameTotal == IntSum([i \in 1..Len(df.rows) |-> df.rows[i].total])

\* the result holds nothing: no key, no row
IsEmptyResult(v) == DOMAIN v = {}

\* C13 as stated: every temporal computation returns an empty result when
\* the dataset has fewer than 2 distinct periods or the date or total
\* column is unresolved.
C13_Original ==
    (ret.op \in TemporalOps /\ (FrameUnresolved \/ Cardinality(FrameDays) < 2)) =>
        IsEmptyResult(ret.value)

\* C13 (amended): every temporal computation returns an empty result when
\* the date or total column is unresolved.  With the columns resolved and
\* fewer than 2 distinct periods, anomaly detection returns no rows, growth
\* rate returns the fixed mapping {avg_growth_rate 0, trend_direction
\* stable, peak_day None}, and weekly statistics and monthly trends are
\* empty without any row and hold the one period's total with one period.
C13_ShortDatasets ==
    /\ (ret.op \in TemporalOps /\ FrameUnresolved) => IsEmptyResult(ret.value)
    /\ (ret.op \in TemporalOps /\ ~FrameUnresolved /\ Cardinality(FrameDays) < 2) =>
          /\ ret.op = "calculate_growth_rate" =>
                ret.value = [avg_growth_rate |-> I(0), trend_direction |-> "stable",
                             peak_day |-> None]
          /\ ret.op = "detect_anomalous_days" => IsEmptyResult(ret.value)
          /\ (ret.op = "get_weekly_statistics" /\ FrameDays = {}) => IsEmptyResult(ret.value)
          /\ (ret.op = "get_weekly_statistics" /\ FrameDays # {}) =>
                ret.value = [avg_weekly |-> FrameTotal, best_week |-> FrameTotal,
                             worst_week |-> FrameTotal, weekly_variance |-> [sqrt |-> NaN]]
          /\ (ret.op = "get_monthly_trends" /\ FrameDays = {}) => IsEmptyResult(ret.value)
          /\ (ret.op = "get_monthly_trends" /\ FrameDays # {}) =>
                /\ Len(ret.value) = 1
                /\ ret.value[1].Enrollments = FrameTotal

\* two rows of one day, columns resolved: growth rate returned its fixed
\* three-key mapping
C13_Witness ==
    /\ ret.op = "calculate_growth_rate"
    /\ ~FrameUnresolved
    /\ Len(df.rows) = 2
    /\ Cardinality(FrameDays) = 1
    /\ FrameTotal = 55
    /\ ret.value.trend_direction = "stable"
    /\ DOMAIN ret.value = {"avg_growth_rate", "trend_direction", "peak_day"}

-----------------------------------------------------------------------------
(* Properties of the calculators' error handling (specification            *)
(* SpecFamilies).                                                          *)

\* the key of analysis_results a calculator's mapping goes under
FamilyOf(method) ==
    CASE method = "calculate_growth_rate" -> "temporal_metrics"
      [] method = "calculate_concentration" -> "geographic_metrics"
      [] method = "analyze_age_distribution" -> "demographic_metrics"
      [] method = "analyze_biometric_coverage" -> "biometric_metrics"
      [] method = "calculate_update_ratios" -> "update_metrics"
      [] method = "get_volatility_metrics" -> "trend_metrics"
      [] OTHER -> "quality_metrics"

\* C14: a calculator whose computation raised returned the empty mapping,
\* and at the end of the run every family whose calculator did not raise
\* holds what it computed.
C14_ErrorsGiveEmptyMapping ==
    /\ (ret.op \in Calculators /\ ret.op \in df.raised) => ret.value = EmptyMap
    /\ ret.op = "InsightGenerator" =>
          \A method \in Calculators \ (df.raised \cup {"calculate_completeness",
                                                      "identify_data_quality_issues"}) :
              results[FamilyOf(method)] = df.computed[FamilyOf(method)]

-----------------------------------------------------------------------------
(* Properties of the loaders and of the render (specification SpecLoad).   *)

\* the files of a kind in the directory, off its listing, and the rows of
\* those read_csv can read, in the order of the listing
KindNames(kind) ==
    CASE kind = "enrolment" ->
             {"enrolment_" \o ToString(i) \o ".csv" : i \in 1..MaxEnrolmentFiles}
      [] kind = "biometric" -> {"biometric_1.csv"}
      [] kind = "demographic" -> {"demographic_1.csv"}
KindFiles(kind) == SelectSeq(df.files, LAMBDA f : f.name \in KindNames(kind))
ReadableFiles(kind) == SelectSeq(KindFiles(kind), LAMBDA f : f.readable)
RECURSIVE RowsOf(_)
RowsOf(files) == IF files = <<>> THEN <<>> ELSE Head(files).frame.rows \o RowsOf(Tail(files))
SourceRows(kind) == RowsOf(ReadableFiles(kind))

\* the enrolment input is missing: no directory, no file, or none readable
EnrolmentMissing == ~df.dir_exists \/ ReadableFiles("enrolment") = <<>>

OnPage(kind) == {i \in 1..Len(ret.page) : ret.page[i].kind = kind}

\* C15: when the data directory is missing, no enrolment file matches or
\* none can be loaded, the render shows an error and halts before any
\* section (filtering, charts, calculators, insights); otherwise it is
\* never halted, whatever biometric and demographic files are missing.
C15_MissingInputBlocks ==
    /\ EnrolmentMissing =>
          /\ ret.op # "rendered" /\ ret.sections = <<>> /\ insights = <<>>
          /\ ret.op # "none" => OnPage("error") # {}
          /\ ret.op = "load_demographic_data" => results.df.is_none
    /\ ~EnrolmentMissing =>
          /\ ret.op # "st.stop" /\ OnPage("error") = {}
          /\ ret.op = "load_demographic_data" => ~results.df.is_none

\* the enrolment files are there but unreadable, next to a readable
\* biometric file: the render stopped on the error
C15_Witness ==
    /\ ret.op = "st.stop"
    /\ df.dir_exists
    /\ Len(KindFiles("enrolment")) = 2
    /\ ReadableFiles("biometric") # <<>>
    /\ ~results.bio_df.is_none
    /\ Len(ret.page) = 3

\* the loaded rows are the source rows, in order: as many, with the cells
\* the loader does not rewrite
SameRows(loaded, source) ==
    /\ Len(loaded.rows) = Len(source)
    /\ \A i \in 1..Len(source) :
          \A c \in DOMAIN source[i] \ {"date", "total"} : loaded.rows[i][c] = source[i][c]

LoadedOf(kind) ==
    CASE kind = "enrolment" -> results.df
      [] kind = "biometric" -> results.bio_df
      [] kind = "demographic" -> results.demo_df

Kinds == {"enrolment", "biometric", "demographic"}
UnionOfLoaded ==
    \A kind \in Kinds :
        (df.dir_exists /\ ReadableFiles(kind) # <<>>) =>
            /\ ~LoadedOf(kind).is_none
            /\ SameRows(LoadedOf(kind).value, SourceRows(kind))
WarnedFiles == {ret.page[i].file : i \in OnPage("warning")}
UnreadableNames(kind) ==
    {KindFiles(kind)[i].name : i \in {j \in 1..Len(KindFiles(kind)) : ~KindFiles(kind)[j].readable}}

AgeSum(row) ==
    RAdd(IF "age_0_5" \in DOMAIN row THEN row["age_0_5"] ELSE I(0),
         IF "age_5_17" \in DOMAIN row THEN row["age_5_17"] ELSE I(0))
SourceHasAge ==
    \E i \in 1..Len(ReadableFiles("enrolment")) :
        \E k \in 1..Len(ReadableFiles("enrolment")[i].frame.columns) :
            ReadableFiles("enrolment")[i].frame.columns[k] \in {"age_0_5", "age_5_17"}

\* C18 as stated: a total column already present in the input keeps its
\* values.
C18_Original ==
    (ret.op = "load_combined_data" /\ ~results.df.is_none) =>
        \A i \in 1..Len(SourceRows("enrolment")) :
            "total" \in DOMAIN SourceRows("enrolment")[i] =>
                results.df.value.rows[i]["total"] = SourceRows("enrolment")[i]["total"]

\* C18 (amended): when the combined enrolment data has a column whose name
\* contains "age", the total column of every row is the row-wise sum of the
\* age columns, replacing any total the input had; without such a column
\* no total is added and a total already present keeps its values.
C18_TotalColumn ==
    (ret.op = "load_combined_data" /\ ~results.df.is_none) =>
        \A i \in 1..Len(SourceRows("enrolment")) :
            LET source == SourceRows("enrolment")[i]
                loaded == results.df.value.rows[i]
            IN  IF SourceHasAge THEN loaded["total"] = AgeSum(source)
                ELSE IF "total" \in DOMAIN source THEN loaded["total"] = source["total"]
                ELSE "total" \notin DOMAIN loaded

\* a file with an age column and a total of 9 was loaded alone: its total
\* is now the age sum 3
C18_Witness ==
    /\ ret.op = "load_combined_data"
    /\ ~results.df.is_none
    /\ Len(SourceRows("enrolment")) = 1
    /\ SourceRows("enrolment")[1]["total"] = I(9)
    /\ results.df.value.rows[1]["total"] = I(3)
    /\ results.df.value.columns = <<"date", "state", "age_0_5", "total">>

-----------------------------------------------------------------------------
(* Properties of the insight cards (specification SpecCards).              *)

\* C19: insights of different severity are rendered with different colour
\* schemes, each of positive, info, warning and critical selecting its own.
C19_SeverityStyling ==
    ret.op = "display_insight_card" =>
        \A i, j \in 1..Len(insights) :
            insights[i].severity # insights[j].severity =>
                ret.value[i].color # ret.value[j].color

-----------------------------------------------------------------------------
(* Properties of the deep analysis (specification SpecRender).             *)

\* the state and date selections applied to a dataset that may be absent
Selected(data) ==
    IF data.is_none THEN data
    ELSE [is_none |-> FALSE,
          value |-> filter_data(data.value, df.selected_states,
                                df.start_date, df.end_date)]

\* C20: after a render with deep analysis, the metrics of every family
\* (temporal, geographic, demographic, quality, biometric, update, trend)
\* are the ones computed from the datasets with the current state and date
\* selections applied
C20_FilteredFamilies ==
    ret.op = "deep_analysis" =>
        results = analysis_results(Selected([is_none |-> FALSE, value |-> df.df]).value,
                                   Selected(df.bio_df), Selected(df.demo_df))

-----------------------------------------------------------------------------
(* Properties of a session of renders (specification SpecSession).         *)

\* C21: no step of a render changes the rows, columns or values of the
\* cached enrolment dataset, and a run starts with no frame object other
\* than the cached one
C21_CacheUntouched ==
    [][/\ df'[1] = df[1]
       /\ ret'.op = "sidebar" => Len(df') = 1]_vars

\* a second render has added year_month to its own filtered copy, which
\* kept fewer rows than the cached dataset
C21_Witness ==
    /\ regens = 2
    /\ ret.op = "temporal"
    /\ ret.filtered_df # 1
    /\ HasColumn(df[ret.filtered_df], "year_month")
    /\ Len(df[ret.filtered_df].rows) < Len(df[1].rows)
    /\ Len(df[ret.filtered_df].rows) > 0

-----------------------------------------------------------------------------
(* Properties of detect_anomalous_days (specification SpecPeriods).        *)

\* the total of a day, and the k-th smallest of the per-date totals
FrameDayTotal(d) ==
    IntSum([i \in 1..Len(df.rows) |-> IF df.rows[i].date = d THEN df.rows[i].total ELSE 0])
OrderStat(k) ==
    CHOOSE v \in {FrameDayTotal(d) : d \in FrameDays} :
        /\ Cardinality({d \in FrameDays : FrameDayTotal(d) < v}) < k
        /\ k <= Cardinality({d \in FrameDays : FrameDayTotal(d) <= v})

\* four times the q-th quartile (q = 1, 3) of the per-date totals, by linear
\* interpolation at position q * (n - 1) / 4
Quartile4(q) ==
    LET n == Cardinality(FrameDays)
        lo == (q * (n - 1)) \div 4
        rem == (q * (n - 1)) % 4
    IN  IF rem = 0 THEN 4 * OrderStat(lo + 1)
        ELSE 4 * OrderStat(lo + 1) + rem * (OrderStat(lo + 2) - OrderStat(lo + 1))

\* eight times the fences Q1 - 1.5 * IQR and Q3 + 1.5 * IQR
LowerFence8 == 2 * Quartile4(1) - 3 * (Quartile4(3) - Quartile4(1))
UpperFence8 == 2 * Quartile4(3) + 3 * (Quartile4(3) - Quartile4(1))

FlaggedDays == {ret.value[i].date : i \in 1..Len(ret.value)}

\* C22 as stated: the flagged per-date totals are exactly those outside the
\* half-open interval [Q1 - 1.5 * IQR, Q3 + 1.5 * IQR), so a total equal to
\* the upper bound is flagged and one equal to the lower bound is not.
C22_Original ==
    (ret.op = "detect_anomalous_days" /\ ~FrameUnresolved) =>
        FlaggedDays = {d \in FrameDays : \/ 8 * FrameDayTotal(d) < LowerFence8
                                         \/ 8 * FrameDayTotal(d) >= UpperFence8}

\* C22, amended: with the date and total columns resolved,
\* detect_anomalous_days returns, in date order, exactly the per-date totals
\* strictly below Q1 - 1.5 * IQR or strictly above Q3 + 1.5 * IQR; a total
\* equal to either bound is not flagged.
C22_ClosedFences ==
    (ret.op = "detect_anomalous_days" /\ ~FrameUnresolved) =>
        /\ FlaggedDays = {d \in FrameDays : \/ 8 * FrameDayTotal(d) < LowerFence8
                                            \/ 8 * FrameDayTotal(d) > UpperFence8}
        /\ Len(ret.value) = Cardinality(FlaggedDays)
        /\ \A i \in 1..Len(ret.value) :
              /\ ret.value[i].total = FrameDayTotal(ret.value[i].date)
              /\ \A j \in 1..(i - 1) : ret.value[j].date < ret.value[i].date

\* one day is flagged while another day's total lies on the upper fence and
\* is not
C22_Witness ==
    /\ ret.op = "detect_anomalous_days"
    /\ ~FrameUnresolved
    /\ FlaggedDays # {}
    /\ \E d \in FrameDays : 8 * FrameDayTotal(d) = UpperFence8 /\ d \notin FlaggedDays

-----------------------------------------------------------------------------
(* Properties of identify_data_quality_issues (specification SpecIssues).  *)

IssueRows == 1..Len(df.rows)

\* the k-th smallest value of a column
ColumnOrderStat(c, k) ==
    CHOOSE v \in {df.rows[i][c] : i \in IssueRows} :
        /\ Cardinality({i \in IssueRows : df.rows[i][c] < v}) < k
        /\ k <= Cardinality({i \in IssueRows : df.rows[i][c] <= v})

\* four times the q-th quartile (q = 1, 3) of a column
ColumnQuartile4(c, q) ==
    LET n == Len(df.rows)
        lo == (q * (n - 1)) \div 4
        rem == (q * (n - 1)) % 4
    IN  IF rem = 0 THEN 4 * ColumnOrderStat(c, lo + 1)
        ELSE 4 * ColumnOrderStat(c, lo + 1)
             + rem * (ColumnOrderStat(c, lo + 2) - ColumnOrderStat(c, lo + 1))

\* the rows outside the IQR bounds of a column
ColumnOutliers(c) ==
    LET iqr4 == ColumnQuartile4(c, 3) - ColumnQuartile4(c, 1)
    IN  {i \in IssueRows :
            \/ 8 * df.rows[i][c] < 2 * ColumnQuartile4(c, 1) - 3 * iqr4
            \/ 8 * df.rows[i][c] > 2 * ColumnQuartile4(c, 3) + 3 * iqr4}

\* the rows equal to an earlier row, and the rows whose numbers sum to zero
DuplicateRows == {i \in IssueRows : \E j \in 1..(i - 1) : df.rows[j] = df.rows[i]}
ZeroRows == {i \in IssueRows : df.rows[i].age_0_5 + df.rows[i].total = 0}

\* C23: outlier_records is the sum over the numeric columns of the number
\* of rows outside that column's IQR bounds, a row outside the bounds of k
\* columns counting k times, and total_issues is duplicate_records +
\* zero_enrollment_records + outlier_records, null_percentage left out
C23_OutlierSum ==
    ret.op = "identify_data_quality_issues" =>
        /\ ret.value.outlier_records =
               Cardinality(ColumnOutliers("age_0_5")) + Cardinality(ColumnOutliers("total"))
        /\ ret.value.duplicate_records = Cardinality(DuplicateRows)
        /\ ret.value.zero_enrollment_records = Cardinality(ZeroRows)
        /\ ret.value.total_issues =
               ret.value.duplicate_records + ret.value.zero_enrollment_records
               + ret.value.outlier_records

\* a row outside the bounds of both columns is counted twice, next to
\* duplicates and zero rows
C23_Witness ==
    /\ ret.op = "identify_data_quality_issues"
    /\ ColumnOutliers("age_0_5") \cap ColumnOutliers("total") # {}
    /\ ret.value.outlier_records = 2
    /\ ret.value.duplicate_records > 0
    /\ ret.value.zero_enrollment_records > 0
    /\ ret.value.total_issues > 2 + ret.value.duplicate_records

-----------------------------------------------------------------------------
(* Properties of the recommendation list under truncation (specification   *)
(* Spec).                                                                  *)

CorrectiveIdx == IdxOf({"critical", "warning"})

\* C24 as stated: the action of every insight whose severity is critical
\* or warning is in the recommendation list; the cut to 10 never removes a
\* corrective action.
C24_Original ==
    \A i \in CorrectiveIdx : insights[i].action \in RecSet

\* C24, amended: the actions of the first 10 critical or warning insights,
\* in insight order, are in the recommendation list; when 10 or more
\* insights are corrective the list holds corrective actions only, so the
\* cut removes a corrective action only when more than 10 insights are
\* corrective, and never in favour of a reinforcement.
C24_FirstTenCorrective ==
    /\ \A i \in CorrectiveIdx :
          Rank(CorrectiveIdx, i) <= 10 => insights[i].action \in RecSet
    /\ Cardinality(CorrectiveIdx) >= 10 =>
          /\ Len(recommendations) = 10
          /\ \A k \in 1..10 :
                \E i \in CorrectiveIdx :
                    Rank(CorrectiveIdx, i) = k /\ recommendations[k] = insights[i].action

\* right after construction 12 of the 13 insights are corrective and the
\* action of the last one is cut
C24_Witness ==
    /\ regens = 0
    /\ Cardinality(CorrectiveIdx) = 12
    /\ IdxOf({"positive"}) = {}
    /\ insights[Len(insights)].action \notin RecSet

-----------------------------------------------------------------------------
(* Properties of the InsightGenerator's lists under repeated calls         *)
(* (specification Spec).                                                   *)

\* C25: after any sequence of calls to the public methods, the insight
\* list is the one right after construction (at most 13 records, at most
\* one per generator) and the recommendation list is the one derived from
\* it at construction
C25_ListsStable ==
    /\ Len(insights) <= 13
    /\ \A i, j \in 1..Len(insights) : insights[i] = insights[j] => i = j
    /\ insights = generate_all_insights(<<>>, results)
    /\ recommendations = generate_recommendations(generate_all_insights(<<>>, results))

-----------------------------------------------------------------------------
(* Properties of the insights of an unavailable metric family              *)
(* (specification Spec).                                                   *)

\* the insight types whose generators read a metric family
TypesOf(family) ==
    CASE family = "temporal_metrics"    -> {"temporal", "capacity"}
      [] family = "geographic_metrics"  -> {"geographic"}
      [] family = "demographic_metrics" -> {"demographic"}
      [] family = "quality_metrics"     -> {"quality"}
      [] family = "biometric_metrics"   -> {"biometric"}
      [] family = "update_metrics"      -> {"update"}
      [] family = "trend_metrics"       -> {"trend"}

MetricFamilies ==
    {"temporal_metrics", "geographic_metrics", "demographic_metrics", "quality_metrics",
     "biometric_metrics", "update_metrics", "trend_metrics"}

\* C26: when the mapping of a metric family is empty, no insight of that
\* family has severity critical or warning
C26_UnavailableIsQuiet ==
    \A family \in MetricFamilies :
        Get(results, family, EmptyMap) = EmptyMap =>
            \A i \in CorrectiveIdx : insights[i].type \notin TypesOf(family)

-----------------------------------------------------------------------------
(* Properties of the key names shared by the deep analysis and the         *)
(* InsightGenerator (specification SpecRender).                            *)

\* the keys the generators read from the mapping of a metric family
ReadKeys(family) ==
    CASE family = "temporal_metrics" ->
             {"avg_growth_rate", "trend_direction", "peak_count", "peak_day",
              "weekly_stats", "total_records"}
      [] family = "geographic_metrics" ->
             {"herfindahl_index", "top_state_percentage", "top_state", "num_states"}
      [] family = "demographic_metrics" ->
             {"age_diversity_index", "dominant_age_percentage", "dominant_age",
              "gender_distribution"}
      [] family = "quality_metrics" -> {"overall_completeness", "issues", "total_records"}
      [] family = "biometric_metrics" -> {}
      [] family = "update_metrics" ->
             {"biometric_to_enrol_ratio", "demographic_to_enrol_ratio"}
      [] family = "trend_metrics" -> {"volatility_level"}

\* C27: after a deep analysis, every key the InsightGenerator reads from a
\* metric family is a key of that family's mapping whenever the family was
\* computed
C27_KeysSupplied ==
    ret.op = "deep_analysis" =>
        \A family \in MetricFamilies :
            results[family] # EmptyMap => ReadKeys(family) \subseteq DOMAIN results[family]

-----------------------------------------------------------------------------
(* Properties of the enrollment-total column across analyzers              *)
(* (specification SpecColumns).                                            *)

\* C28: on every dataset the temporal, geographic and trend analyzers
\* resolve the same enrollment-total column
C28_OneEnrolmentColumn ==
    ret.op \in {"AdvancedTemporalAnalysis", "GeographicAnalysis", "TrendAnalysis"} =>
        /\ ret.enrol_col = Temporal_find_enrollment_column(df.columns)
        /\ ret.enrol_col = Geo_find_enrollment_column(df.columns)
        /\ ret.enrol_col = Trend_find_enrollment_column(df.columns)

-----------------------------------------------------------------------------
(* Properties of generate_gender_insight (specification SpecGender).       *)

GenderDist == results.demographic_metrics.gender_distribution
LargestCount ==
    CHOOSE c \in {GenderDist[k][2] : k \in 1..Len(GenderDist)} :
        \A k \in 1..Len(GenderDist) : GenderDist[k][2] <= c
SmallestCount ==
    CHOOSE c \in {GenderDist[k][2] : k \in 1..Len(GenderDist)} :
        \A k \in 1..Len(GenderDist) : GenderDist[k][2] >= c

\* C29: for every non-empty gender distribution, one with a smallest count
\* of zero included, the insight is positive only when the largest count
\* is less than 1.2 times the smallest, and is a warning whenever the
\* largest count is at least 1.5 times the smallest
C29_GenderBands ==
    (ret.op = "generate_gender_insight" /\ GenderDist # <<>>) =>
        /\ insights[1].severity = "positive" => 10 * LargestCount < 12 * SmallestCount
        /\ 10 * LargestCount >= 15 * SmallestCount => insights[1].severity = "warning"

-----------------------------------------------------------------------------
(* Properties of the data filtering (specification SpecRender).            *)

LoadedRows == df.df.rows
FilteredRows == ret.filtered_df.rows
InDateRange(row) == df.start_date <= row.date /\ row.date <= df.end_date

\* C30 as stated: every row of the filtered dataset is a row of the loaded
\* dataset whose state is among the selected states and whose date lies in
\* [start date, end date], an empty state selection included.
C30_Original ==
    ret.op \in {"filter", "deep_analysis"} =>
        \A k \in 1..Len(FilteredRows) :
            /\ \E i \in 1..Len(LoadedRows) : LoadedRows[i] = FilteredRows[k]
            /\ FilteredRows[k].state \in df.selected_states
            /\ InDateRange(FilteredRows[k])

\* the positions of the loaded rows the selections keep: an empty state
\* selection keeps every state
KeptRows ==
    {i \in 1..Len(LoadedRows) :
        /\ df.selected_states = {} \/ LoadedRows[i].state \in df.selected_states
        /\ InDateRange(LoadedRows[i])}

\* C30, amended: on a dataset with state and date columns the filtered
\* dataset holds, in loaded order, exactly the loaded rows whose date lies
\* in [start date, end date] and whose state is among the selected states
\* when at least one state is selected; an empty state selection keeps the
\* rows of every state.
C30_FilteredRows ==
    ret.op \in {"filter", "deep_analysis"} =>
        /\ Len(FilteredRows) = Cardinality(KeptRows)
        /\ \A i \in KeptRows : FilteredRows[Rank(KeptRows, i)] = LoadedRows[i]

\* a selection of one state and a one-day range keep the first of two rows,
\* whose date is the end date, and drop a row of another state
C30_Witness ==
    /\ ret.op = "filter"
    /\ Cardinality(df.selected_states) = 1
    /\ Len(LoadedRows) = 2
    /\ KeptRows = {1}
    /\ LoadedRows[1].date = df.end_date
    /\ LoadedRows[2].state \notin df.selected_states
    /\ FilteredRows = <<LoadedRows[1]>>

=============================================================================
